---- MODULE Spec2Model ----
(***************************************************************************)
(* Model of genthetic's batch-pipeline concurrency engine:                 *)
(*   - Throttler (src/src/throttler.ts): bounded-concurrency task runner   *)
(*     with retry and backoff;                                             *)
(*   - Genthetic.synthesize (src/src/genthetic.ts): the orchestrator that  *)
(*     drives the stages of a type definition over the batches of a run.   *)
(*                                                                         *)
(* One step of the model is one JavaScript callback (a timer callback, a   *)
(* promise reaction, or the synchronous prefix of a call) run to its next  *)
(* suspension point.                                                       *)
(***************************************************************************)
EXTENDS Integers, Sequences, FiniteSets, TLC

(* ---------------------------------------------------------------- bounds *)
MaxTasks == 3            \* tasks a direct caller submits to a Throttler
MaxFairTasks == 2        \* the same, where eventual settlement is checked
MaxConcurrency == 2      \* largest explicit concurrency option
MaxRetriesOpt == 1       \* largest explicit maxRetries option
MaxStages == 2           \* longest stage list of a type definition
MaxBatches == 2          \* largest explicit batches option
MaxCount == 3            \* largest explicit count option
MaxSizingCount == 5      \* largest count option where sizes are checked
MaxBatchSize == 3        \* largest batchSize and defaultBatchSize there
RandomSteps == 4         \* Math.random() returns one of 0/4, 1/4, 2/4, 3/4
MaxRuns == 2             \* calls of complete() on one job, one after the other
TaskDuration == 2        \* time a task function of fixed duration takes, in
                         \* units of the clock

(* An options object is a function from the option names that are present  *)
(* to their values; an absent name is JavaScript's undefined.              *)
Opt(o, k, default) == IF k \in DOMAIN o THEN o[k] ELSE default

(* JavaScript truthiness of a numeric option: present and not 0.           *)
Truthy(o, k) == k \in DOMAIN o /\ o[k] # 0

(* JavaScript truthiness of a string option: present and not "".           *)
TruthyString(o, k) == k \in DOMAIN o /\ o[k] # ""

NoOptions == [k \in {} |-> 0]

VARIABLES
    throttlers,     \* number of Throttler instances constructed
    options,        \* Throttler.options after the constructor's defaults
    queue,          \* Throttler.queue: pending tasks, head first
    runningTasks,   \* Throttler.runningTasks
    retries,        \* task.retries of every task
    zeroTimers,     \* pending setTimeout(() => processQueue(), 0) callbacks
    backoffTimers,  \* tasks whose retry timer is pending
    now,            \* the clock: time since the Throttler was constructed
    elapsed,        \* time for which the pending invocation of task.fn has
                    \* been running, per task
    mathRandom,     \* the numerators r of the values r / RandomSteps that
                    \* Math.random() can return in this run
    delays,         \* history: the delays of the retry timers scheduled for
                    \* every task, oldest first, in 1/TicksPerMs ms
    promise,        \* the promise run() returned for every task
    settleCalls,    \* calls of task.resolve / task.reject per task
    calls,          \* invocations of task.fn (or of processBatch) per task
    fnPc,           \* position of the running invocation: 0 when none,
                    \* k when suspended in its k-th await
    fnOut,          \* settled result of an invocation whose reaction is pending
    failures,       \* invocations of task.fn that failed, per task
    overtook,       \* history: some batch returned from processBatch while a
                    \* batch of lower index had not
    rejectedFirst,  \* history: the promise of some task was rejected while
                    \* the promise of a task submitted before it was pending
    submitted,      \* number of run() calls made so far
    typeDefinition, \* the TypeDefinition: its stages and defaultBatchSize
    synthOptions,   \* the SynthesizeOptions of the run
    runs,           \* calls of complete() made so far
    genPc,          \* position of generatePromise
    batchNumber,    \* loop variable of generatePromise
    results,        \* generatePromise's results array
    cachedStageOutputs, \* generatePromise's cache, keyed by stage index
    currentBatch,   \* processBatch's currentBatch, per batch
    context,        \* processBatch's context, per batch
    currentProgress,\* progressController.currentProgress
    emitted,        \* history: snapshots emitted since the run began, as long
                    \* as no attempt of a batch and no observer has failed in
                    \* it; -1 afterwards
    thrown,         \* history: the failures the observers onProgress and
                    \* onBatch raised
    effects,        \* what the latest callback that did any of them made
                    \* visible outside the engine, in order: snapshots
                    \* emitted, onBatch calls, writes of the sink
    observed,       \* the calls of options.onBatch so far
    sink,           \* the contents written to options.outFile so far
    completion      \* the promise complete() returned

thVars == <<throttlers, now, elapsed, options, queue, runningTasks, retries, zeroTimers,
            backoffTimers, mathRandom, delays, promise, settleCalls>>
fnVars == <<calls, fnPc, fnOut, failures, overtook, rejectedFirst>>
batchVars == <<currentBatch, context, cachedStageOutputs, currentProgress,
              emitted, thrown, effects>>
genVars == <<typeDefinition, synthOptions, runs, genPc, batchNumber, results,
             observed, sink,
             completion>>
vars == <<thVars, fnVars, submitted, batchVars, genVars>>


(* ------------------------------------------------------------ records *)
(* A record of a batch is a function from the field names it has to their  *)
(* values.  The stages of the model write one field, "trace", the list of  *)
(* the stage executions the record went through, and a hinting stage also  *)
(* writes "__hints".                                                       *)
EmptyRecord == <<>>

WithField(item, k, v) ==
    [f \in DOMAIN item \cup {k} |-> IF f = k THEN v ELSE item[f]]

Trace(item) == Opt(item, "trace", <<>>)

(* The stage functions of the model.  Each adds to the "trace" of every    *)
(* record what it was given: its stage index, the batch number and the     *)
(* size of previousData in its context, and the record's position.  The    *)
(* first stage also attaches hints to the first record of its batch, so    *)
(* that records with and without hints occur.                              *)
runStage(stageIndex, batch, ctx) ==
    [i \in 1 .. Len(batch) |->
        LET tag == <<stageIndex, ctx.batchNumber, i - 1, Len(ctx.previousData)>>
            traced == WithField(batch[i], "trace", Append(Trace(batch[i]), tag))
        IN  IF stageIndex = 0 /\ i = 1
            THEN WithField(traced, "__hints", <<"hint", ctx.batchNumber>>)
            ELSE traced]

stripHintsItem_KeepsAll(item) == item

stripHintsItem(item) ==
    IF "__hints" \in DOMAIN item
    THEN [f \in DOMAIN item \ {"__hints"} |-> item[f]]
    ELSE item

stripHints(data) == [i \in 1 .. Len(data) |-> stripHintsItem(data[i])]

(* Array.prototype.flat() of the sparse array of per-stage arrays: the     *)
(* entries that exist, in ascending stage index.                           *)
RECURSIVE FlatFrom(_, _, _)
FlatFrom(arr, i, n) ==
    IF i >= n THEN <<>>
    ELSE (IF i \in DOMAIN arr THEN arr[i] ELSE <<>>) \o FlatFrom(arr, i + 1, n)

flat_FirstStageOnly(arr) == IF 0 \in DOMAIN arr THEN arr[0] ELSE <<>>

flat(arr) == FlatFrom(arr, 0, Len(typeDefinition.stages))

(* ------------------------------------------------------- batch sizing *)
Ceil_FloorPlusOne(a, b) == (a \div b) + 1

Ceil(a, b) == IF a % b = 0 THEN a \div b ELSE (a \div b) + 1

stages == typeDefinition.stages

batchSize ==
    IF Truthy(synthOptions, "batchSize") THEN synthOptions.batchSize
    ELSE IF Truthy(typeDefinition, "defaultBatchSize")
         THEN typeDefinition.defaultBatchSize
         ELSE 10

totalBatches ==
    IF Truthy(synthOptions, "batches") THEN synthOptions.batches
    ELSE IF Truthy(synthOptions, "count")
         THEN Ceil(synthOptions.count, batchSize)
         ELSE 1

totalCount ==
    IF Truthy(synthOptions, "batches") THEN synthOptions.batches * batchSize
    ELSE IF Truthy(synthOptions, "count") THEN synthOptions.count
         ELSE batchSize

currentBatchSize_AlwaysFull(b) == batchSize

currentBatchSize(b) ==
    IF b = totalBatches - 1 THEN totalCount - b * batchSize ELSE batchSize

requiresSerialProcessing_Every ==
    Len(stages) > 0 /\ \A k \in 1 .. Len(stages) : stages[k].cacheOutput

requiresSerialProcessing_Never == FALSE

requiresSerialProcessing_FirstStageOnly ==
    Len(stages) > 0 /\ stages[1].cacheOutput

requiresSerialProcessing ==
    \E k \in 1 .. Len(stages) : stages[k].cacheOutput

(* ------------------------------------------------------------ effects *)
(* progressController.emit(): a copy of currentProgress is handed to the   *)
(* listeners and to options.onProgress.                                    *)
emit(log, progress) == Append(log, <<"emit", progress>>)

(* JSON.stringify(data, null, 2) of an array of records of the model: the  *)
(* text determines the array, and is written as such.                      *)
stringify(data) == <<"json", data>>

(* writeData(file, data) after the writes log of the same callback and the *)
(* writes written so far: nothing without a file.                          *)
writeData(o, data, log, written) ==
    IF ~TruthyString(o, "outFile")
    THEN [effects |-> log, sink |-> written]
    ELSE [effects |-> Append(log, <<"write", stringify(data)>>),
          sink |-> Append(written, stringify(data))]

(* The effects of a callback replace those kept of the one before.         *)
Latest(log) == IF log = <<>> THEN effects ELSE log

(* ------------------------------------------------------- processBatch *)
(* The error a failing stage raises; processBatch re-throws it unchanged.  *)
StageError(b, stageIndex, attempt) == <<"stage failed", b, stageIndex, attempt>>

(* The count of the snapshots emitted after n more of them: a negative     *)
(* count means that an attempt of a batch, or an observer, has failed in   *)
(* the run, and stays.                                                     *)
Snapshots(count, n) == IF count < 0 THEN count ELSE count + n

(* A caller-supplied observer is modelled by its behaviour: one that       *)
(* returns from every call, or "throws", one that can throw from any call. *)
MayThrow(observer) ==
    observer \in DOMAIN synthOptions /\ synthOptions[observer] = "throws"

(* What a call of an observer does.                                        *)
Outcomes(observer) ==
    IF MayThrow(observer) THEN {"returns", "throws"} ELSE {"returns"}

(* The failure an observer raises when called for batch b.                 *)
ObserverError(observer, b) == <<"observer failed", observer, b>>

processBatchStart_NoFirstEmit(b, cachedOutputs, progress, outs, log, emits) ==
    /\ currentBatch' = [currentBatch EXCEPT
                           ![b] = [i \in 1 .. currentBatchSize(b) |-> EmptyRecord]]
    /\ context' = [context EXCEPT
                      ![b] = [batchNumber |-> b,
                              batches |-> totalBatches,
                              count |-> totalCount,
                              previousData |-> flat(cachedOutputs)]]
    /\ IF Len(stages) = 0
       THEN /\ fnPc' = [fnPc EXCEPT ![b] = 0]
            /\ fnOut' = [outs EXCEPT
                            ![b] = <<"ok", [i \in 1 .. currentBatchSize(b) |-> EmptyRecord]>>]
       ELSE /\ fnPc' = [fnPc EXCEPT ![b] = 1]
            /\ fnOut' = outs
    /\ currentProgress' = progress
    /\ effects' = Latest(log)
    /\ emitted' = Snapshots(emits, 0)
    /\ UNCHANGED thrown
    /\ cachedStageOutputs' = cachedOutputs

(* processBatch(b, cachedOutputs) from its call to its first await,        *)
(* called when progressController.currentProgress is progress, the settled *)
(* invocations whose reactions are pending are outs, and the callback that *)
(* calls it has already had the effects log, emits snapshots having been   *)
(* emitted in the run by then.                                             *)
processBatchStart(b, cachedOutputs, progress, outs, log, emits) ==
    /\ currentBatch' = [currentBatch EXCEPT
                           ![b] = [i \in 1 .. currentBatchSize(b) |-> EmptyRecord]]
    /\ context' = [context EXCEPT
                      ![b] = [batchNumber |-> b,
                              batches |-> totalBatches,
                              count |-> totalCount,
                              previousData |-> flat(cachedOutputs)]]
    /\ IF Len(stages) = 0
       THEN /\ fnPc' = [fnPc EXCEPT ![b] = 0]
            /\ fnOut' = [outs EXCEPT
                            ![b] = <<"ok", [i \in 1 .. currentBatchSize(b) |-> EmptyRecord]>>]
            /\ currentProgress' = progress
            /\ effects' = Latest(log)
            /\ emitted' = Snapshots(emits, 0)
            /\ UNCHANGED thrown
       ELSE /\ currentProgress' = [progress EXCEPT !.stagesComplete = 0]
            /\ effects' = emit(log, [progress EXCEPT !.stagesComplete = 0])
            /\ \E outcome \in Outcomes("onProgress") :
                   IF outcome = "throws"
                   THEN /\ fnPc' = [fnPc EXCEPT ![b] = 0]
                        /\ fnOut' = [outs EXCEPT
                                        ![b] = <<"err", ObserverError("onProgress", b)>>]
                        /\ thrown' = thrown \cup {ObserverError("onProgress", b)}
                        /\ emitted' = -1
                   ELSE /\ fnPc' = [fnPc EXCEPT ![b] = 1]
                        /\ fnOut' = outs
                        /\ emitted' = Snapshots(emits, 1)
                        /\ UNCHANGED thrown
    /\ cachedStageOutputs' = cachedOutputs

(* task.fn(): an opaque asynchronous function for a direct caller of the   *)
(* Throttler, processBatch for a batch of a run.                           *)
invoke(t) ==
    /\ calls' = [calls EXCEPT ![t] = @ + 1]
    /\ UNCHANGED <<failures, overtook, rejectedFirst>>
    /\ IF genPc = "none"
       THEN /\ fnPc' = [fnPc EXCEPT ![t] = 1]
            /\ UNCHANGED <<fnOut, batchVars>>
       ELSE processBatchStart(t, cachedStageOutputs, currentProgress, fnOut,
                              IF genPc = "dispatch" THEN effects ELSE <<>>,
                              emitted)

(* ----------------------------------------------------------- Throttler *)
DefaultConcurrency == 5
DefaultMaxRetries == 3
DefaultBaseRetryDelayMs == 200

(* The constructor: options with the defaults filled in.                   *)
Throttler(o) ==
    [concurrency |-> Opt(o, "concurrency", DefaultConcurrency),
     maxRetries |-> Opt(o, "maxRetries", DefaultMaxRetries),
     baseRetryDelayMs |-> Opt(o, "baseRetryDelayMs", DefaultBaseRetryDelayMs)]

AtConcurrencyLimit_Never == FALSE

AtConcurrencyLimit_OrRunOver ==
    runningTasks >= options.concurrency \/ genPc = "failed"

AtConcurrencyLimit_OneAtATime == runningTasks >= 1

AtConcurrencyLimit_OffByOne == runningTasks > options.concurrency

AtConcurrencyLimit == runningTasks >= options.concurrency

(* The re-check at the end of processQueue, after the counter was raised   *)
(* and the head removed from q.                                            *)
MoreToProcess(q) ==
    LET remainingSlots == options.concurrency - (runningTasks + 1)
    IN  remainingSlots > 0 /\ Len(Tail(q)) > 0

(* processQueue() run on queue q with timers zero-delay timers pending.    *)
processQueue(q, timers) ==
    IF Len(q) = 0 \/ AtConcurrencyLimit
    THEN /\ queue' = q
         /\ zeroTimers' = timers
         /\ UNCHANGED <<runningTasks, fnVars, batchVars>>
    ELSE LET task == Head(q)
         IN  /\ queue' = Tail(q)
             /\ runningTasks' = runningTasks + 1
             /\ invoke(task)
             /\ zeroTimers' = IF MoreToProcess(q) THEN timers + 1 ELSE timers

run_AtFront(t) ==
    /\ promise' = [promise EXCEPT ![t] = <<"pending">>]
    /\ processQueue(<<t>> \o queue, zeroTimers)
    /\ UNCHANGED <<throttlers, now, elapsed, options, mathRandom, delays, retries,
                   backoffTimers, settleCalls>>

run_QueuesOnly(t) ==
    /\ promise' = [promise EXCEPT ![t] = <<"pending">>]
    /\ queue' = Append(queue, t)
    /\ UNCHANGED <<throttlers, now, elapsed, options, mathRandom, delays, retries,
                   backoffTimers, settleCalls, runningTasks, zeroTimers,
                   fnVars, batchVars>>

(* run(fn): the executor of the returned promise.                          *)
run(t) ==
    /\ promise' = [promise EXCEPT ![t] = <<"pending">>]
    /\ processQueue(Append(queue, t), zeroTimers)
    /\ UNCHANGED <<throttlers, now, elapsed, options, mathRandom, delays, retries,
                   backoffTimers, settleCalls>>

(* get queueLength()                                                       *)
queueLength == Len(queue)

(* get activeTaskCount()                                                   *)
activeTaskCount == runningTasks

(* task.resolve / task.reject: a promise settles once, later calls of its  *)
(* resolving functions are ignored.                                        *)
settle(t, outcome) ==
    /\ promise' = [promise EXCEPT
                      ![t] = IF @ = <<"pending">> THEN outcome ELSE @]
    /\ settleCalls' = [settleCalls EXCEPT ![t] = @ + 1]

Settled(t) == promise[t][1] \in {"resolved", "rejected"}

ShouldRetry_Never(t) == FALSE

ShouldRetry_OneMore(t) == retries[t] <= options.maxRetries

ShouldRetry_Inverted(t) == retries[t] > options.maxRetries

ShouldRetry_OneFewer(t) == retries[t] < options.maxRetries - 1

ShouldRetry(t) == retries[t] < options.maxRetries

MaxRetriesError_Unwrapped(error) == error

(* new Error(`Max retries (${maxRetries}) exceeded: ${error.message || error}`) *)
MaxRetriesError(error) == <<"Max retries", options.maxRetries, "exceeded", error>>

Requeue_Twice(q, t) == <<t, t>> \o q

Requeue_AtTail(q, t) == Append(q, t)

Requeue_Dropped(q, t) == q

(* this.queue.unshift({...task, retries: task.retries})                    *)
Requeue(q, t) == <<t>> \o q

(* Delays are rational numbers of milliseconds. Math.random() returns      *)
(* r / RandomSteps and the jitter is a whole percentage, so every delay    *)
(* the code computes is a whole number of ticks of 1/TicksPerMs ms, and    *)
(* the model computes in ticks. The rounding of the code's doubles (about  *)
(* 1e-16 of a delay) is below that resolution.                             *)
TicksPerMs == 100 * RandomSteps

RECURSIVE Pow2(_)
(* Math.pow(2, n)                                                          *)
Pow2(n) == IF n <= 0 THEN 1 ELSE 2 * Pow2(n - 1)

backoffDelay_NoGrowth(attempt) == options.baseRetryDelayMs

backoffDelay_OneDoublingMore(attempt) == options.baseRetryDelayMs * Pow2(attempt)

(* backoffDelay, in ms, of the retry that makes task.retries = attempt.    *)
backoffDelay(attempt) == options.baseRetryDelayMs * Pow2(attempt - 1)

(* const jitter = 0.15, as a percentage                                    *)
jitter == 15

(* minDelay and maxDelay, in 1/100 ms                                      *)
minDelay(delay) == delay * (100 - jitter)
maxDelay(delay) == delay * (100 + jitter)

(* minDelay + Math.random() * (maxDelay - minDelay), in ticks, where       *)
(* Math.random() returned random / RandomSteps.                            *)
actualDelay(delay, random) ==
    minDelay(delay) * RandomSteps + random * (maxDelay(delay) - minDelay(delay))

(* No callback runs while the dispatch loop of generatePromise, which is   *)
(* synchronous, is between two run() calls.                                *)
Synchronous == genPc = "dispatch"

TaskThen_NoWakeup(t) ==
    /\ ~Synchronous
    /\ promise[t] # <<"none">>
    /\ fnOut[t][1] = "ok"
    /\ runningTasks' = runningTasks - 1
    /\ settle(t, <<"resolved", fnOut[t][2]>>)
    /\ fnOut' = [fnOut EXCEPT ![t] = <<"none">>]
    /\ UNCHANGED <<throttlers, now, elapsed, options, mathRandom, delays, queue,
                   retries, backoffTimers, zeroTimers,
                   calls, fnPc, failures, overtook, rejectedFirst, submitted,
                   batchVars, genVars>>

TaskThen_KeepsCount(t) ==
    /\ ~Synchronous
    /\ promise[t] # <<"none">>
    /\ fnOut[t][1] = "ok"
    /\ settle(t, <<"resolved", fnOut[t][2]>>)
    /\ zeroTimers' = zeroTimers + 1
    /\ fnOut' = [fnOut EXCEPT ![t] = <<"none">>]
    /\ UNCHANGED <<throttlers, now, elapsed, options, mathRandom, delays, queue, retries,
                   backoffTimers, runningTasks,
                   calls, fnPc, failures, overtook, rejectedFirst, submitted, batchVars, genVars>>

(* The .then reaction of executeTask.                                      *)
TaskThen(t) ==
    /\ ~Synchronous
    /\ promise[t] # <<"none">>
    /\ fnOut[t][1] = "ok"
    /\ runningTasks' = runningTasks - 1
    /\ settle(t, <<"resolved", fnOut[t][2]>>)
    /\ zeroTimers' = zeroTimers + 1
    /\ fnOut' = [fnOut EXCEPT ![t] = <<"none">>]
    /\ UNCHANGED <<throttlers, now, elapsed, options, mathRandom, delays, queue, retries,
                   backoffTimers,
                   calls, fnPc, failures, overtook, rejectedFirst, submitted, batchVars, genVars>>

TaskCatch_SharedCounter(t) ==
    /\ ~Synchronous
    /\ promise[t] # <<"none">>
    /\ fnOut[t][1] = "err"
    /\ runningTasks' = runningTasks - 1
    /\ fnOut' = [fnOut EXCEPT ![t] = <<"none">>]
    /\ IF ShouldRetry(t)
       THEN /\ retries' = [u \in DOMAIN retries |-> retries[u] + 1]
            /\ \E random \in mathRandom :
                   delays' = [delays EXCEPT
                                 ![t] = Append(@, actualDelay(
                                                     backoffDelay(retries[t] + 1),
                                                     random))]
            /\ backoffTimers' = backoffTimers \cup {t}
            /\ UNCHANGED <<promise, settleCalls, zeroTimers, rejectedFirst>>
       ELSE /\ settle(t, <<"rejected", MaxRetriesError(fnOut[t][2])>>)
            /\ rejectedFirst' =
                   (rejectedFirst
                    \/ \E a \in 0 .. (t - 1) : promise[a] = <<"pending">>)
            /\ zeroTimers' = zeroTimers + 1
            /\ UNCHANGED <<retries, backoffTimers, delays>>
    /\ UNCHANGED <<throttlers, now, elapsed, options, mathRandom, queue, calls,
                   fnPc, failures, overtook, submitted, batchVars, genVars>>

(* The .catch reaction of executeTask.                                     *)
TaskCatch(t) ==
    /\ ~Synchronous
    /\ promise[t] # <<"none">>
    /\ fnOut[t][1] = "err"
    /\ runningTasks' = runningTasks - 1
    /\ fnOut' = [fnOut EXCEPT ![t] = <<"none">>]
    /\ IF ShouldRetry(t)
       THEN /\ retries' = [retries EXCEPT ![t] = @ + 1]
            /\ \E random \in mathRandom :
                   delays' = [delays EXCEPT
                                 ![t] = Append(@, actualDelay(
                                                     backoffDelay(retries[t] + 1),
                                                     random))]
            /\ backoffTimers' = backoffTimers \cup {t}
            /\ UNCHANGED <<promise, settleCalls, zeroTimers, rejectedFirst>>
       ELSE /\ settle(t, <<"rejected", MaxRetriesError(fnOut[t][2])>>)
            /\ rejectedFirst' =
                   (rejectedFirst
                    \/ \E a \in 0 .. (t - 1) : promise[a] = <<"pending">>)
            /\ zeroTimers' = zeroTimers + 1
            /\ UNCHANGED <<retries, backoffTimers, delays>>
    /\ UNCHANGED <<throttlers, now, elapsed, options, mathRandom, queue, calls, fnPc, failures, overtook, submitted,
                   batchVars, genVars>>

(* The retry timer of a failed task fires.                                 *)
RetryTimer(t) ==
    /\ ~Synchronous
    /\ t \in backoffTimers
    /\ backoffTimers' = backoffTimers \ {t}
    /\ processQueue(Requeue(queue, t), zeroTimers)
    /\ UNCHANGED <<throttlers, now, elapsed, options, mathRandom, delays, retries, promise,
                   settleCalls,
                   submitted, genVars>>

(* A setTimeout(() => this.processQueue(), 0) callback fires.              *)
ZeroTimer ==
    /\ ~Synchronous
    /\ zeroTimers > 0
    /\ processQueue(queue, zeroTimers - 1)
    /\ UNCHANGED <<throttlers, now, elapsed, options, mathRandom, delays, retries,
                   backoffTimers, promise,
                   settleCalls, submitted, genVars>>

(* ------------------------------------------- a direct caller of Throttler *)
(* The values and errors the opaque task functions produce: one per        *)
(* invocation, so that no two invocations can be confused.                 *)
FnValue(t, attempt) == <<"value", t, attempt>>
FnError(t, attempt) == <<"error", t, attempt>>

(* The caller submits its next task.                                       *)
Run ==
    /\ genPc = "none"
    /\ submitted \in DOMAIN promise
    /\ run(submitted)
    /\ submitted' = submitted + 1
    /\ UNCHANGED genVars

(* The promise a task function returned is fulfilled.                      *)
FnResolves(t) ==
    /\ genPc = "none"
    /\ fnPc[t] = 1
    /\ fnPc' = [fnPc EXCEPT ![t] = 0]
    /\ fnOut' = [fnOut EXCEPT ![t] = <<"ok", FnValue(t, calls[t])>>]
    /\ UNCHANGED <<thVars, calls, failures, overtook, rejectedFirst, submitted, batchVars,
                   genVars>>

(* The promise a task function returned is rejected.                       *)
FnRejects(t) ==
    /\ genPc = "none"
    /\ fnPc[t] = 1
    /\ fnPc' = [fnPc EXCEPT ![t] = 0]
    /\ fnOut' = [fnOut EXCEPT ![t] = <<"err", FnError(t, calls[t])>>]
    /\ failures' = [failures EXCEPT ![t] = @ + 1]
    /\ UNCHANGED <<thVars, calls, overtook, rejectedFirst, submitted, batchVars, genVars>>

ThrottlerOptionChoices ==
    {NoOptions}
    \cup [concurrency : 1 .. MaxConcurrency, maxRetries : 0 .. MaxRetriesOpt]

NoProgress == [batchesComplete |-> 0, stagesComplete |-> 0]

(* No task has been submitted, nothing runs, no run of a pipeline exists.  *)
IdleWith(ids) ==
    /\ queue = <<>>
    /\ runningTasks = 0
    /\ retries = [t \in ids |-> 0]
    /\ zeroTimers = 0
    /\ backoffTimers = {}
    /\ now = 0
    /\ elapsed = [t \in ids |-> 0]
    /\ delays = [t \in ids |-> <<>>]
    /\ promise = [t \in ids |-> <<"none">>]
    /\ settleCalls = [t \in ids |-> 0]
    /\ calls = [t \in ids |-> 0]
    /\ fnPc = [t \in ids |-> 0]
    /\ fnOut = [t \in ids |-> <<"none">>]
    /\ failures = [t \in ids |-> 0]
    /\ overtook = FALSE
    /\ rejectedFirst = FALSE
    /\ submitted = 0
    /\ runs = 0
    /\ batchNumber = 0
    /\ results = <<>>
    /\ cachedStageOutputs = <<>>
    /\ currentBatch = [t \in ids |-> <<>>]
    /\ context = [t \in ids |-> <<>>]
    /\ currentProgress = NoProgress
    /\ emitted = 0
    /\ thrown = {}
    /\ effects = <<>>
    /\ observed = <<>>
    /\ sink = <<>>
    /\ completion = <<"none">>

(* A Throttler constructed by a test or another direct caller, which      *)
(* will submit the tasks ids.                                              *)
ThrottlerFor(ids) ==
    /\ throttlers = 1
    /\ \E o \in ThrottlerOptionChoices : options = Throttler(o)
    /\ mathRandom = {0}
    /\ typeDefinition = [stages |-> <<>>]
    /\ synthOptions = NoOptions
    /\ genPc = "none"
    /\ IdleWith(ids)

ThrottlerInit == ThrottlerFor(0 .. (MaxTasks - 1))

ThrottlerNext ==
    \/ Run
    \/ \E t \in DOMAIN fnPc : FnResolves(t)
    \/ \E t \in DOMAIN fnPc : FnRejects(t)
    \/ \E t \in DOMAIN fnPc : TaskThen(t)
    \/ \E t \in DOMAIN fnPc : TaskCatch(t)
    \/ \E t \in DOMAIN fnPc : RetryTimer(t)
    \/ ZeroTimer

ThrottlerSpec == ThrottlerInit /\ [][ThrottlerNext]_vars

(* --------------------------------- tasks of one fixed duration, timed *)
(* The task functions of the concurrency example: each awaits a sleep of   *)
(* the same duration and then returns, and none fails.  Callbacks take no  *)
(* time: the clock stands still while a zero-delay timer or a promise      *)
(* reaction is pending.                                                    *)
SleepResolves(t) ==
    /\ elapsed[t] = TaskDuration
    /\ FnResolves(t)

(* One unit of time passes.  The caller has submitted its tasks in one     *)
(* synchronous loop, no callback is ready to run, and the sleep of every   *)
(* invocation in progress has time left.                                   *)
Tick ==
    /\ genPc = "none"
    /\ submitted \notin DOMAIN promise
    /\ zeroTimers = 0
    /\ \A t \in DOMAIN fnPc : fnOut[t] = <<"none">>
    /\ \A t \in DOMAIN fnPc : fnPc[t] = 1 => elapsed[t] < TaskDuration
    /\ \E t \in DOMAIN fnPc : fnPc[t] = 1
    /\ now' = now + 1
    /\ elapsed' = [t \in DOMAIN elapsed |->
                      IF fnPc[t] = 1 THEN elapsed[t] + 1 ELSE elapsed[t]]
    /\ UNCHANGED <<throttlers, options, queue, runningTasks, retries,
                   zeroTimers, backoffTimers, mathRandom, delays, promise,
                   settleCalls, fnVars, submitted, batchVars, genVars>>

(* const tasks = Array.from({ length: n }, ...): the caller submits n      *)
(* tasks, for every n up to MaxTasks.                                      *)
TimedInit == \E n \in 1 .. MaxTasks : ThrottlerFor(0 .. (n - 1))

TimedNext ==
    \/ Run
    \/ \E t \in DOMAIN fnPc : SleepResolves(t)
    \/ \E t \in DOMAIN fnPc : TaskThen(t)
    \/ ZeroTimer
    \/ Tick

TimedSpec == TimedInit /\ [][TimedNext]_vars

(* ------------------------------------------------ Genthetic.synthesize *)
(* processBatch(a) has returned its batch.                                 *)
Returned(a) ==
    \/ fnOut[a][1] = "ok"
    \/ promise[a][1] = "resolved"
    \/ (genPc = "serial" /\ a < batchNumber)

cacheOutput_KeepsLatest(cachedOutputs, stageIndex, batch) ==
    [i \in DOMAIN cachedOutputs \cup {stageIndex} |->
        IF i = stageIndex THEN batch ELSE cachedOutputs[i]]

(* if (!cachedOutputs[stageIndex]) cachedOutputs[stageIndex] = [];         *)
(* cachedOutputs[stageIndex].push(...currentBatch)                         *)
cacheOutput(cachedOutputs, stageIndex, batch) ==
    [i \in DOMAIN cachedOutputs \cup {stageIndex} |->
        IF i = stageIndex
        THEN (IF i \in DOMAIN cachedOutputs THEN cachedOutputs[i] ELSE <<>>) \o batch
        ELSE cachedOutputs[i]]

caches_Always(k) == TRUE

(* if (stage.cacheOutput), for the k-th stage of the pipeline              *)
caches(k) == stages[k].cacheOutput

(* A stage.run that succeeds: the continuation of processBatch after its   *)
(* await, up to the next await or to its return.                           *)
StageResolves(b) ==
    /\ genPc \notin {"none", "dispatch"}
    /\ fnPc[b] > 0
    /\ LET k == fnPc[b]
           out == runStage(k - 1, currentBatch[b], context[b])
       IN  /\ currentBatch' = [currentBatch EXCEPT ![b] = out]
           /\ cachedStageOutputs' =
                  IF caches(k)
                  THEN cacheOutput(cachedStageOutputs, k - 1, out)
                  ELSE cachedStageOutputs
           /\ currentProgress' = [currentProgress EXCEPT !.stagesComplete = k]
           /\ \E afterStage \in Outcomes("onProgress"),
                 beforeNext \in Outcomes("onProgress") :
                  LET after == emit(<<>>, [currentProgress EXCEPT !.stagesComplete = k])
                      error == ObserverError("onProgress", b)
                  IN  IF afterStage = "throws"
                      THEN /\ beforeNext = "returns"
                           /\ effects' = after
                           /\ emitted' = -1
                           /\ fnPc' = [fnPc EXCEPT ![b] = 0]
                           /\ fnOut' = [fnOut EXCEPT ![b] = <<"err", error>>]
                           /\ thrown' = thrown \cup {error}
                           /\ overtook' = overtook
                      ELSE IF k < Len(stages) /\ beforeNext = "throws"
                      THEN /\ effects' = emit(after, after[1][2])
                           /\ emitted' = -1
                           /\ fnPc' = [fnPc EXCEPT ![b] = 0]
                           /\ fnOut' = [fnOut EXCEPT ![b] = <<"err", error>>]
                           /\ thrown' = thrown \cup {error}
                           /\ overtook' = overtook
                      ELSE /\ beforeNext = "returns"
                           /\ effects' = IF k < Len(stages)
                                         THEN emit(after, after[1][2]) ELSE after
                           /\ emitted' = Snapshots(emitted, Len(effects'))
                           /\ IF k < Len(stages)
                              THEN /\ fnPc' = [fnPc EXCEPT ![b] = k + 1]
                                   /\ fnOut' = fnOut
                              ELSE /\ fnPc' = [fnPc EXCEPT ![b] = 0]
                                   /\ fnOut' = [fnOut EXCEPT ![b] = <<"ok", out>>]
                           /\ thrown' = thrown
                           /\ overtook' = (overtook
                                           \/ (k = Len(stages)
                                               /\ \E a \in 0 .. (b - 1) : ~Returned(a)))
    /\ UNCHANGED <<thVars, calls, failures, rejectedFirst, submitted, context,
                   genVars>>

(* A stage.run that throws or rejects: processBatch re-throws.             *)
StageRejects(b) ==
    /\ genPc \notin {"none", "dispatch"}
    /\ fnPc[b] > 0
    /\ fnPc' = [fnPc EXCEPT ![b] = 0]
    /\ fnOut' = [fnOut EXCEPT ![b] = <<"err", StageError(b, fnPc[b] - 1, calls[b])>>]
    /\ failures' = [failures EXCEPT ![b] = @ + 1]
    /\ emitted' = -1
    /\ UNCHANGED <<thVars, calls, overtook, rejectedFirst, submitted, currentBatch, context,
                   cachedStageOutputs, currentProgress, thrown, effects, genVars>>

processBatchResults_Prepend(b, batch, res) ==
    LET all == batch \o res
        called == IF "onBatch" \in DOMAIN synthOptions
                  THEN <<<<"onBatch", batch, [batchNumber |-> b]>>>> ELSE <<>>
        wrote == writeData(synthOptions, stripHints(all), called, sink)
        progress == [currentProgress EXCEPT !.batchesComplete = b + 1]
    IN  [results |-> all,
         observed |-> observed \o called,
         sink |-> wrote.sink,
         progress |-> progress,
         effects |-> emit(wrote.effects, progress)]

processBatchResults_CountsOneMore(b, batch, res) ==
    LET all == res \o batch
        called == IF "onBatch" \in DOMAIN synthOptions
                  THEN <<<<"onBatch", batch, [batchNumber |-> b]>>>> ELSE <<>>
        wrote == writeData(synthOptions, stripHints(all), called, sink)
        progress == [currentProgress EXCEPT !.batchesComplete = b + 2]
    IN  [results |-> all,
         observed |-> observed \o called,
         sink |-> wrote.sink,
         progress |-> progress,
         effects |-> emit(wrote.effects, progress)]

processBatchResults_EmitsBeforeUpdate(b, batch, res) ==
    LET all == res \o batch
        called == IF "onBatch" \in DOMAIN synthOptions
                  THEN <<<<"onBatch", batch, [batchNumber |-> b]>>>> ELSE <<>>
        wrote == writeData(synthOptions, stripHints(all), called, sink)
        progress == [currentProgress EXCEPT !.batchesComplete = b + 1]
    IN  [results |-> all,
         observed |-> observed \o called,
         sink |-> wrote.sink,
         progress |-> progress,
         effects |-> emit(wrote.effects, currentProgress)]

processBatchResults_WritesFirst(b, batch, res) ==
    LET all == res \o batch
        called == IF "onBatch" \in DOMAIN synthOptions
                  THEN <<<<"onBatch", batch, [batchNumber |-> b]>>>> ELSE <<>>
        wrote == writeData(synthOptions, stripHints(all), <<>>, sink)
        progress == [currentProgress EXCEPT !.batchesComplete = b + 1]
    IN  [results |-> all,
         observed |-> observed \o called,
         sink |-> wrote.sink,
         progress |-> progress,
         effects |-> emit(wrote.effects \o called, progress)]

(* processBatchResults(b, batch, results): the values it leaves in results *)
(* and in currentProgress, and its effects: the observer's call, the write *)
(* and the emission, in that order.                                        *)
processBatchResults(b, batch, res) ==
    LET all == res \o batch
        called == IF "onBatch" \in DOMAIN synthOptions
                  THEN <<<<"onBatch", batch, [batchNumber |-> b]>>>> ELSE <<>>
        wrote == writeData(synthOptions, stripHints(all), called, sink)
        progress == [currentProgress EXCEPT !.batchesComplete = b + 1]
    IN  [results |-> all,
         observed |-> observed \o called,
         sink |-> wrote.sink,
         progress |-> progress,
         effects |-> emit(wrote.effects, progress)]

Return_NoFinalWrite(res, log, written) ==
    [completion |-> <<"resolved", stripHints(res)>>,
     effects |-> log,
     sink |-> written]

(* The end of generatePromise: strip the hints, write them and return,     *)
(* after the effects log of the same callback and the writes written.      *)
Return(res, log, written) ==
    LET wrote == writeData(synthOptions, stripHints(res), log, written)
    IN  [completion |-> <<"resolved", stripHints(res)>>,
         effects |-> wrote.effects,
         sink |-> wrote.sink]

perCall_KeptAcrossCalls(previous) == previous

(* `const results = []` and `const cachedStageOutputs = []`: the arrays of *)
(* generatePromise are created by each call of it, whatever the arrays of  *)
(* the call before, previous, hold.                                        *)
perCall(previous) == <<>>

(* generatePromise() from its call to its first await, in serial mode, or  *)
(* to the start of its dispatch loop on the Throttler it constructs. The   *)
(* batches and tasks of the call are new ones: none was invoked, none      *)
(* failed.                                                                 *)
generatePromise ==
    /\ runs' = runs + 1
    /\ batchNumber' = 0
    /\ results' = perCall(results)
    /\ completion' = <<"pending">>
    /\ IF requiresSerialProcessing
       THEN /\ genPc' = "serial"
            /\ calls' = [b \in DOMAIN calls |-> IF b = 0 THEN 1 ELSE 0]
            /\ processBatchStart(0, perCall(cachedStageOutputs), currentProgress,
                                 fnOut, <<>>, 0)
            /\ UNCHANGED <<thVars, submitted>>
       ELSE /\ genPc' = "dispatch"
            /\ cachedStageOutputs' = perCall(cachedStageOutputs)
            /\ throttlers' = throttlers + 1
            /\ UNCHANGED <<now, elapsed>>
            /\ options' = Throttler(synthOptions)
            /\ queue' = <<>>
            /\ runningTasks' = 0
            /\ retries' = [t \in DOMAIN retries |-> 0]
            /\ delays' = [t \in DOMAIN delays |-> <<>>]
            /\ promise' = [t \in DOMAIN promise |-> <<"none">>]
            /\ settleCalls' = [t \in DOMAIN settleCalls |-> 0]
            /\ submitted' = 0
            /\ calls' = [b \in DOMAIN calls |-> 0]
            /\ UNCHANGED <<zeroTimers, backoffTimers, mathRandom, fnPc, fnOut,
                           currentBatch, context, currentProgress, thrown>>
            /\ effects' = <<>>
            /\ emitted' = 0
    /\ failures' = [b \in DOMAIN failures |-> 0]
    /\ overtook' = FALSE
    /\ rejectedFirst' = FALSE
    /\ UNCHANGED <<typeDefinition, synthOptions, observed, sink>>

(* The first complete() of a job.                                          *)
Complete ==
    /\ genPc = "idle"
    /\ generatePromise

(* Nothing of an earlier run is pending: no timer, no invocation of        *)
(* processBatch, no reaction.                                              *)
Quiescent ==
    /\ zeroTimers = 0
    /\ backoffTimers = {}
    /\ queue = <<>>
    /\ \A b \in DOMAIN fnPc : fnPc[b] = 0 /\ fnOut[b] = <<"none">>

CompleteAgain_Memoized ==
    /\ genPc \in {"done", "failed"}
    /\ runs < MaxRuns
    /\ Quiescent
    /\ runs' = runs + 1
    /\ UNCHANGED <<thVars, fnVars, submitted, batchVars, typeDefinition,
                   synthOptions, genPc, batchNumber, results, observed, sink,
                   completion>>

(* complete() called again on the job, after the run before has ended and  *)
(* nothing of it is pending.                                               *)
CompleteAgain ==
    /\ genPc \in {"done", "failed"}
    /\ runs < MaxRuns
    /\ Quiescent
    /\ generatePromise

(* One iteration of the loop that queues all batches: throttler.run(...).  *)
Dispatch ==
    /\ genPc = "dispatch"
    /\ run(batchNumber)
    /\ submitted' = submitted + 1
    /\ IF batchNumber + 1 < totalBatches
       THEN /\ batchNumber' = batchNumber + 1
            /\ genPc' = genPc
       ELSE /\ batchNumber' = 0
            /\ genPc' = "consume"
    /\ UNCHANGED <<typeDefinition, synthOptions, runs, results, observed, sink,
                   completion>>

(* Serial mode: the continuation of `await processBatch(...)`.             *)
SerialAwait ==
    /\ genPc = "serial"
    /\ fnOut[batchNumber] # <<"none">>
    /\ IF fnOut[batchNumber][1] = "ok"
       THEN LET done == processBatchResults(batchNumber, fnOut[batchNumber][2], results)
            IN  /\ results' = done.results
                /\ observed' = done.observed
                /\ IF batchNumber + 1 < totalBatches
                   THEN /\ batchNumber' = batchNumber + 1
                        /\ calls' = [calls EXCEPT ![batchNumber + 1] = @ + 1]
                        /\ processBatchStart(batchNumber + 1, cachedStageOutputs,
                                             done.progress,
                                             [fnOut EXCEPT ![batchNumber] = <<"none">>],
                                             done.effects, Snapshots(emitted, 1))
                        /\ sink' = done.sink
                        /\ UNCHANGED <<genPc, completion>>
                   ELSE LET end == Return(done.results, done.effects, done.sink)
                        IN  /\ genPc' = "done"
                            /\ completion' = end.completion
                            /\ effects' = end.effects
                            /\ sink' = end.sink
                            /\ fnOut' = [fnOut EXCEPT ![batchNumber] = <<"none">>]
                            /\ currentProgress' = done.progress
                            /\ emitted' = Snapshots(emitted, 1)
                            /\ UNCHANGED <<batchNumber, calls, fnPc, currentBatch,
                                           context, cachedStageOutputs, thrown>>
       ELSE /\ genPc' = "failed"
            /\ completion' = <<"rejected", fnOut[batchNumber][2]>>
            /\ fnOut' = [fnOut EXCEPT ![batchNumber] = <<"none">>]
            /\ UNCHANGED <<batchNumber, results, observed, sink, calls, fnPc,
                           currentBatch, context, currentProgress, effects,
                           cachedStageOutputs, thrown, emitted>>
    /\ UNCHANGED <<thVars, failures, overtook, rejectedFirst, submitted, typeDefinition,
                   synthOptions, runs>>

batchPromises_AnyRejected(b) ==
    IF \E a \in DOMAIN promise : promise[a][1] = "rejected"
    THEN promise[CHOOSE a \in DOMAIN promise : promise[a][1] = "rejected"]
    ELSE promise[b]

batchPromises_Reversed(b) == promise[totalBatches - 1 - b]

(* batchPromises[b]: the promise throttler.run returned for batch b.       *)
batchPromises(b) == promise[b]

(* Parallel mode: the continuation of `await batchPromises[batchNumber]`.  *)
ParallelAwait ==
    /\ genPc = "consume"
    /\ batchPromises(batchNumber)[1] \in {"resolved", "rejected"}
    /\ IF batchPromises(batchNumber)[1] = "resolved"
       THEN LET done == processBatchResults(batchNumber,
                                           batchPromises(batchNumber)[2], results)
            IN  /\ results' = done.results
                /\ observed' = done.observed
                /\ currentProgress' = done.progress
                /\ emitted' = Snapshots(emitted, 1)
                /\ batchNumber' = batchNumber + 1
                /\ IF batchNumber + 1 < totalBatches
                   THEN /\ effects' = done.effects
                        /\ sink' = done.sink
                        /\ UNCHANGED <<genPc, completion>>
                   ELSE LET end == Return(done.results, done.effects, done.sink)
                        IN  /\ genPc' = "done"
                            /\ completion' = end.completion
                            /\ effects' = end.effects
                            /\ sink' = end.sink
       ELSE /\ genPc' = "failed"
            /\ completion' = <<"rejected", batchPromises(batchNumber)[2]>>
            /\ UNCHANGED <<batchNumber, results, observed, sink, currentProgress,
                           effects, emitted>>
    /\ UNCHANGED <<thVars, fnVars, submitted, currentBatch, context,
                   cachedStageOutputs, thrown, typeDefinition, synthOptions, runs>>

(* The continuation of an await of generatePromise on a batch that         *)
(* returned, when processBatchResults does not return: options.onBatch     *)
(* throws, or options.onProgress throws in the emit that ends it. Nothing  *)
(* in generatePromise catches, so the promise of complete() is rejected.   *)
ObserverThrows(observer) ==
    /\ \/ genPc = "serial" /\ fnOut[batchNumber][1] = "ok"
       \/ genPc = "consume" /\ batchPromises(batchNumber)[1] = "resolved"
    /\ MayThrow(observer)
    /\ LET batch == IF genPc = "serial" THEN fnOut[batchNumber][2]
                    ELSE batchPromises(batchNumber)[2]
           done == processBatchResults(batchNumber, batch, results)
           error == ObserverError(observer, batchNumber)
       IN  /\ results' = done.results
           /\ observed' = done.observed
           /\ IF observer = "onBatch"
              THEN /\ effects' = SubSeq(done.effects, 1, 1)
                   /\ UNCHANGED <<sink, currentProgress>>
              ELSE /\ effects' = done.effects
                   /\ sink' = done.sink
                   /\ currentProgress' = done.progress
           /\ emitted' = -1
           /\ thrown' = thrown \cup {error}
           /\ genPc' = "failed"
           /\ completion' = <<"rejected", error>>
           /\ fnOut' = IF genPc = "serial"
                       THEN [fnOut EXCEPT ![batchNumber] = <<"none">>] ELSE fnOut
    /\ UNCHANGED <<thVars, calls, fnPc, failures, overtook, rejectedFirst, submitted,
                   currentBatch, context, cachedStageOutputs, typeDefinition,
                   synthOptions, runs, batchNumber>>

(* The stages a type definition can be given: caching their output or not. *)
StageChoices == [cacheOutput : BOOLEAN]

RECURSIVE StageLists(_)
StageLists(n) ==
    IF n = 0 THEN {<<>>}
    ELSE LET shorter == StageLists(n - 1)
         IN  shorter \cup {Append(l, st) : l \in {x \in shorter : Len(x) = n - 1},
                                          st \in StageChoices}

TypeDefinitionChoices ==
    {[stages |-> l, defaultBatchSize |-> 2] : l \in StageLists(MaxStages)}

SynthSizingChoices == [batches : 1 .. MaxBatches] \cup [count : 1 .. MaxCount]

Merge(f, g) == [k \in DOMAIN f \cup DOMAIN g |-> IF k \in DOMAIN f THEN f[k] ELSE g[k]]

(* A batch observer and a file to write to.                                *)
Observed == [onBatch |-> "onBatch", outFile |-> "out.json"]

(* synthesize() called without options or with an empty file name, with a  *)
(* count, an observer and a file, or with a size, an observer and the      *)
(* options of the Throttler.                                               *)
SynthOptionChoices ==
    {NoOptions, [outFile |-> ""]}
    \cup {Merge(sz, Observed) : sz \in [count : 1 .. MaxCount]}
    \cup {Merge(sz, Merge(th, [onBatch |-> "onBatch"])) :
              sz \in SynthSizingChoices,
              th \in ThrottlerOptionChoices \ {NoOptions}}

(* A job returned by synthesize() whose complete() has not been called.    *)
Init ==
    /\ typeDefinition \in TypeDefinitionChoices
    /\ synthOptions \in SynthOptionChoices
    /\ throttlers = 0
    /\ options = NoOptions
    /\ mathRandom = {0}
    /\ genPc = "idle"
    /\ IdleWith(0 .. (totalBatches - 1))

Next ==
    \/ Complete
    \/ Dispatch
    \/ \E b \in DOMAIN fnPc : StageResolves(b)
    \/ \E b \in DOMAIN fnPc : StageRejects(b)
    \/ SerialAwait
    \/ ParallelAwait
    \/ \E t \in DOMAIN fnPc : TaskThen(t)
    \/ \E t \in DOMAIN fnPc : TaskCatch(t)
    \/ \E t \in DOMAIN fnPc : RetryTimer(t)
    \/ ZeroTimer

Spec == Init /\ [][Next]_vars

(* ------------------------------------------------ runs of many sizes *)
(* With or without the option k, of a value up to n.                       *)
Optional(k, n) == {NoOptions} \cup {[x \in {k} |-> v] : v \in 1 .. n}

SizingOptionChoices ==
    {Merge(sz, bs) :
        sz \in {NoOptions} \cup [batches : 1 .. MaxBatches]
                           \cup [count : 1 .. MaxSizingCount],
        bs \in Optional("batchSize", MaxBatchSize)}

(* A pipeline of one caching stage, with or without a default batch size.  *)
SizingTypeChoices ==
    {Merge([stages |-> <<[cacheOutput |-> TRUE]>>], d) :
        d \in Optional("defaultBatchSize", MaxBatchSize)}

SizingInit ==
    /\ typeDefinition \in SizingTypeChoices
    /\ synthOptions \in SizingOptionChoices
    /\ throttlers = 0
    /\ options = NoOptions
    /\ mathRandom = {0}
    /\ genPc = "idle"
    /\ IdleWith(0 .. (totalBatches - 1))

(* What can happen in a run without a Throttler.                           *)
SizingNext ==
    \/ Complete
    \/ \E b \in DOMAIN fnPc : StageResolves(b)
    \/ \E b \in DOMAIN fnPc : StageRejects(b)
    \/ SerialAwait

SizingSpec == SizingInit /\ [][SizingNext]_vars

(* The scheduling the event loop guarantees: a pending timer fires, a      *)
(* pending promise reaction runs, and (the premise of the claim checked    *)
(* under it) every invocation of a task function settles.  The caller is   *)
(* not obliged to submit anything.                                         *)
TaskIds == 0 .. (MaxFairTasks - 1)

ThrottlerFairness ==
    /\ WF_vars(ZeroTimer)
    /\ \A t \in TaskIds : WF_vars(FnResolves(t) \/ FnRejects(t))
    /\ \A t \in TaskIds : WF_vars(TaskThen(t))
    /\ \A t \in TaskIds : WF_vars(TaskCatch(t))
    /\ \A t \in TaskIds : WF_vars(RetryTimer(t))

ThrottlerFairInit == ThrottlerFor(TaskIds)

ThrottlerFairSpec ==
    ThrottlerFairInit /\ [][ThrottlerNext]_vars /\ ThrottlerFairness

(* ------------------------------------------------- several runs of a job *)
(* The options of the jobs that are completed more than once.              *)
RerunOptionChoices ==
    [count : 1 .. MaxCount]
    \cup {[batches |-> MaxBatches, concurrency |-> 1, maxRetries |-> 1]}

RerunInit ==
    /\ typeDefinition \in TypeDefinitionChoices
    /\ synthOptions \in RerunOptionChoices
    /\ throttlers = 0
    /\ options = NoOptions
    /\ mathRandom = {0}
    /\ genPc = "idle"
    /\ IdleWith(0 .. (totalBatches - 1))

RerunNext == Next \/ CompleteAgain

RerunSpec == RerunInit /\ [][RerunNext]_vars

(* ------------------------------------------- parallel runs, scheduled *)
(* The runs in parallel mode of MaxBatches batches of one stage, with      *)
(* every choice of the options of their Throttler.                         *)
ParallelTypeChoices ==
    {d \in TypeDefinitionChoices :
         /\ Len(d.stages) = 1
         /\ \A k \in DOMAIN d.stages : ~d.stages[k].cacheOutput}

ParallelOptionChoices ==
    [batches : {MaxBatches},
     concurrency : 1 .. MaxConcurrency,
     maxRetries : 0 .. MaxRetriesOpt]

ParallelInit ==
    /\ typeDefinition \in ParallelTypeChoices
    /\ synthOptions \in ParallelOptionChoices
    /\ throttlers = 0
    /\ options = NoOptions
    /\ mathRandom = {0}
    /\ genPc = "idle"
    /\ IdleWith(0 .. (totalBatches - 1))

BatchIds == 0 .. (MaxBatches - 1)

(* The event loop runs every callback that is ready: the synchronous code  *)
(* of generatePromise proceeds, every timer fires, every promise a stage   *)
(* returned settles, and every reaction of a settled promise runs.         *)
EventLoop ==
    /\ WF_vars(Complete)
    /\ WF_vars(Dispatch)
    /\ WF_vars(ParallelAwait)
    /\ WF_vars(ZeroTimer)
    /\ \A b \in BatchIds : WF_vars(StageResolves(b) \/ StageRejects(b))
    /\ \A b \in BatchIds : WF_vars(TaskThen(b))
    /\ \A b \in BatchIds : WF_vars(TaskCatch(b))
    /\ \A b \in BatchIds : WF_vars(RetryTimer(b))

(* The steps of a run in parallel mode.                                    *)
ParallelNext ==
    \/ Complete
    \/ Dispatch
    \/ \E b \in DOMAIN fnPc : StageResolves(b)
    \/ \E b \in DOMAIN fnPc : StageRejects(b)
    \/ ParallelAwait
    \/ \E t \in DOMAIN fnPc : TaskThen(t)
    \/ \E t \in DOMAIN fnPc : TaskCatch(t)
    \/ \E t \in DOMAIN fnPc : RetryTimer(t)
    \/ ZeroTimer

ParallelFairSpec == ParallelInit /\ [][ParallelNext]_vars /\ EventLoop

(* --------------------------------------------- observers that can throw *)
(* The options of the runs whose progress observer, or batch observer,     *)
(* can throw.                                                              *)
ObserverOptionChoices ==
    {Merge([batches |-> MaxBatches, maxRetries |-> r], observer) :
         r \in 0 .. MaxRetriesOpt,
         observer \in {[onProgress |-> "throws"], [onBatch |-> "throws"]}}

ObserverInit ==
    /\ typeDefinition \in TypeDefinitionChoices
    /\ synthOptions \in ObserverOptionChoices
    /\ throttlers = 0
    /\ options = NoOptions
    /\ mathRandom = {0}
    /\ genPc = "idle"
    /\ IdleWith(0 .. (totalBatches - 1))

ObserverNext ==
    \/ Next
    \/ \E observer \in {"onProgress", "onBatch"} : ObserverThrows(observer)

ObserverSpec == ObserverInit /\ [][ObserverNext]_vars

(* ----------------------------------------------------- backoff delays *)
(* The explicit baseRetryDelayMs options of the Throttlers whose retry     *)
(* delays are explored: the one of the backoff test, and none at all.      *)
BaseDelayChoices == {0, 100}

BackoffOptionChoices ==
    {NoOptions} \cup [baseRetryDelayMs : BaseDelayChoices]

(* One task on a Throttler with the default concurrency and maxRetries,    *)
(* every outcome of Math.random() being possible at every retry.           *)
BackoffInit ==
    /\ throttlers = 1
    /\ \E o \in BackoffOptionChoices : options = Throttler(o)
    /\ mathRandom = 0 .. (RandomSteps - 1)
    /\ typeDefinition = [stages |-> <<>>]
    /\ synthOptions = NoOptions
    /\ genPc = "none"
    /\ IdleWith({0})

BackoffSpec == BackoffInit /\ [][ThrottlerNext]_vars

(* ================================================= claims on the Throttler *)
Executing == {t \in DOMAIN fnPc : fnPc[t] > 0}

(* C1: whatever the submissions, successes, failures and retries, the      *)
(* number of task functions executing at the same time never exceeds the   *)
(* concurrency limit, and runningTasks stays between 0 and that limit.     *)
C1_ConcurrencyBound ==
    /\ Cardinality(Executing) <= options.concurrency
    /\ runningTasks >= 0
    /\ runningTasks <= options.concurrency

(* The limit is reached while a task waits and a task has been retried.    *)
C1_Witness ==
    /\ Cardinality(Executing) = options.concurrency
    /\ Len(queue) > 0
    /\ \E t \in DOMAIN retries : retries[t] > 0

(* C4: a task whose function fails on every invocation is invoked exactly  *)
(* maxRetries + 1 times, no more, and is then rejected with an error that  *)
(* names maxRetries and carries the error of the last invocation; it is    *)
(* not rejected before.                                                    *)
C4_AlwaysFailingRejected ==
    \A t \in DOMAIN promise :
        /\ calls[t] <= options.maxRetries + 1
        /\ (failures[t] = options.maxRetries + 1 /\ fnOut[t] = <<"none">>)
               => promise[t] = <<"rejected",
                                 <<"Max retries", options.maxRetries, "exceeded",
                                   <<"error", t, options.maxRetries + 1>> >> >>
        /\ promise[t][1] = "rejected"
               => (calls[t] = options.maxRetries + 1 /\ failures[t] = calls[t])

(* A task was rejected after it had been retried.                          *)
C4_Witness ==
    \E t \in DOMAIN promise :
        /\ promise[t][1] = "rejected"
        /\ retries[t] > 0
        /\ calls[t] = options.maxRetries + 1

(* C5: a task whose function fails k < maxRetries times and then succeeds  *)
(* is never rejected; it is resolved with the value of the successful      *)
(* invocation and its function is invoked exactly k + 1 times.             *)
C5_FlakyResolved ==
    \A t \in DOMAIN promise :
        failures[t] < options.maxRetries =>
            /\ promise[t][1] # "rejected"
            /\ promise[t][1] = "resolved"
                   => (calls[t] = failures[t] + 1
                       /\ promise[t][2] = <<"value", t, failures[t] + 1>>)
            /\ (calls[t] = failures[t] + 1 /\ fnPc[t] = 0 /\ fnOut[t] = <<"none">>)
                   => promise[t][1] = "resolved"

(* A task was resolved after k >= 1 failures, k < maxRetries.              *)
C5_Witness ==
    \E t \in DOMAIN promise :
        /\ promise[t][1] = "resolved"
        /\ failures[t] >= 1
        /\ failures[t] < options.maxRetries

(* C6: no task is dropped.  Every submitted task eventually has its promise *)
(* settled; task.resolve / task.reject is called exactly once for it, with *)
(* the result of its own function or with the retry-exhausted error, and a *)
(* failure that is retried never reaches the caller.                       *)
C6_SettledOnce(t) ==
    /\ settleCalls[t] <= 1
    /\ Settled(t) <=> settleCalls[t] = 1
    /\ promise[t][1] = "resolved" => promise[t][2] = <<"value", t, calls[t]>>
    /\ promise[t][1] = "rejected"
           => (promise[t][2][1] = "Max retries"
               /\ promise[t][2][4] = <<"error", t, calls[t]>>
               /\ retries[t] = options.maxRetries)

C6_NoTaskDropped ==
    /\ [](\A t \in TaskIds : C6_SettledOnce(t))
    /\ \A t \in TaskIds : (promise[t] = <<"pending">>) ~> Settled(t)

(* A task that failed and was retried has been settled, once.              *)
C6_Witness ==
    \E t \in DOMAIN promise :
        /\ retries[t] > 0
        /\ Settled(t)
        /\ settleCalls[t] = 1

(* C7: once the retry timer of a failed task has put it back at the head   *)
(* of the queue, no task that was never started is started before it: a    *)
(* step that starts a never-started task leaves no re-queued task waiting. *)
C7_RetryBeforeFresh ==
    [][\A t \in DOMAIN calls :
           (calls[t] = 0 /\ calls'[t] = 1)
               => \A i \in 1 .. Len(queue') : retries'[queue'[i]] = 0]_vars

(* A re-queued task waits at the head of the queue, all slots taken, with  *)
(* a never-started task that was submitted later behind it.                *)
C7_Witness ==
    /\ Len(queue) >= 2
    /\ retries[Head(queue)] > 0
    /\ calls[queue[Len(queue)]] = 0
    /\ queue[Len(queue)] > Head(queue)
    /\ runningTasks = options.concurrency

(* ============================================== claims on the orchestrator *)
(* The pipeline has a stage that caches its output.                        *)
HasCachingStage ==
    \E k \in 1 .. Len(typeDefinition.stages) : typeDefinition.stages[k].cacheOutput

(* The outputs out[0], ..., out[n - 1] one after the other.                *)
RECURSIVE ConcatBatches(_, _)
ConcatBatches(out, n) ==
    IF n = 0 THEN <<>> ELSE ConcatBatches(out, n - 1) \o out[n - 1]

(* The stage executions recorded in the records of a returned array say    *)
(* which batch each record came from.                                      *)
FromBatch(item, b) ==
    \A j \in 1 .. Len(Trace(item)) : Trace(item)[j][2] = b

(* C2: when complete() succeeds, in serial and in parallel mode, what it   *)
(* returns is the outputs of batch 0, batch 1, ... in that order (hints    *)
(* stripped), whatever the order in which the batches finished.            *)
C2_OrderedConcatenation ==
    genPc = "done" =>
        /\ completion =
               <<"resolved", stripHints(ConcatBatches(currentBatch, totalBatches))>>
        /\ Len(completion[2]) = totalCount
        /\ \A i \in 1 .. Len(completion[2]) :
               FromBatch(completion[2][i], (i - 1) \div batchSize)

(* A run succeeded in which a batch had finished before one of lower index. *)
C2_Witness ==
    /\ genPc = "done"
    /\ overtook
    /\ totalBatches >= 2
    /\ Len(stages) >= 1

(* Batch a went through every stage and processBatch returned its output.  *)
Completed(a) ==
    /\ calls[a] = 1
    /\ fnPc[a] = 0
    /\ failures[a] = 0
    /\ \A i \in 1 .. Len(currentBatch[a]) :
           Len(Trace(currentBatch[a][i])) = Len(stages)

(* C3: in a run whose pipeline has a caching stage, whatever concurrency   *)
(* was asked for, batches execute one at a time in ascending index: batch  *)
(* b + 1 has not started unless batch b went through its last stage.       *)
C3_CachingRunsSerially ==
    HasCachingStage =>
        /\ Cardinality(Executing) <= 1
        /\ \A b \in DOMAIN calls :
               (b >= 1 /\ calls[b] > 0) => Completed(b - 1)
        /\ \A b \in DOMAIN calls : calls[b] <= 1

(* The second batch of a caching run executes, a concurrency above one     *)
(* having been asked for.                                                  *)
C3_Witness ==
    /\ HasCachingStage
    /\ "concurrency" \in DOMAIN synthOptions
    /\ synthOptions.concurrency >= 2
    /\ totalBatches >= 2
    /\ fnPc[1] > 0
    /\ Len(stages) >= 2

(* C8: the mode is fixed by the pipeline before any batch executes.  A run *)
(* without a caching stage creates one Throttler and starts every batch as *)
(* a task of it; a run with a caching stage creates no Throttler, submits  *)
(* nothing to one, and never has two batches in flight.                    *)
C8_ModeDecidedOnce ==
    /\ genPc = "idle" => (throttlers = 0 /\ \A b \in DOMAIN calls : calls[b] = 0)
    /\ HasCachingStage =>
           /\ genPc \notin {"dispatch", "consume"}
           /\ throttlers = 0
           /\ queue = <<>>
           /\ runningTasks = 0
           /\ \A b \in DOMAIN promise : promise[b] = <<"none">>
           /\ Cardinality({b \in DOMAIN calls :
                               calls[b] > 0 /\ ~Completed(b)}) <= 1
    /\ ~HasCachingStage =>
           /\ genPc # "serial"
           /\ genPc # "idle" => throttlers = 1
           /\ \A b \in DOMAIN calls : calls[b] > 0 => promise[b] # <<"none">>

(* A run of a pipeline with a caching stage and a stage that does not      *)
(* cache has ended after more than one batch.                              *)
C8_Witness ==
    /\ HasCachingStage
    /\ \E k \in 1 .. Len(stages) : ~stages[k].cacheOutput
    /\ genPc = "done"
    /\ totalBatches >= 2

(* What stage s (counted from 0) returned for batch a: the records of the  *)
(* batch as they were after s + 1 stages.                                  *)
StageOutput(a, s) ==
    [i \in 1 .. Len(currentBatch[a]) |->
        [f \in DOMAIN currentBatch[a][i] |->
            IF f = "trace"
            THEN SubSeq(currentBatch[a][i][f], 1, s + 1)
            ELSE currentBatch[a][i][f]]]

(* The outputs of stage s for batches 0 .. n - 1, in batch order.          *)
RECURSIVE CachedOf(_, _)
CachedOf(s, n) ==
    IF n = 0 THEN <<>> ELSE CachedOf(s, n - 1) \o StageOutput(n - 1, s)

(* The cached outputs of batches 0 .. n - 1: caching stage after caching   *)
(* stage from stage s on, batch after batch within a stage.                *)
RECURSIVE CachedFrom(_, _)
CachedFrom(s, n) ==
    IF s >= Len(stages) THEN <<>>
    ELSE (IF stages[s + 1].cacheOutput THEN CachedOf(s, n) ELSE <<>>)
             \o CachedFrom(s + 1, n)

FreshRecord(b, i, n) ==
    IF n = 0 THEN EmptyRecord
    ELSE [f \in (IF i = 1 THEN {"trace", "__hints"} ELSE {"trace"}) |->
             IF f = "trace"
             THEN [s \in 1 .. n |-> <<s - 1, b, i - 1, 0>>]
             ELSE <<"hint", b>>]

FreshOutput(b) ==
    [i \in 1 .. currentBatchSize(b) |-> FreshRecord(b, i, Len(stages))]

(* C10: in parallel mode a batch is retried as a whole.  Every execution   *)
(* of a batch, the first and each re-execution, goes from the first stage  *)
(* on fresh empty records; a batch that failed j <= maxRetries times is    *)
(* not rejected, runs j + 1 times and its output is in the result; a batch *)
(* that never fails is executed exactly once.                              *)
C10_WholeBatchRetry ==
    ~HasCachingStage =>
        /\ \A b \in DOMAIN calls :
               /\ calls[b] <= failures[b] + 1
               /\ failures[b] <= Throttler(synthOptions).maxRetries
                      => promise[b][1] # "rejected"
               /\ fnPc[b] > 0 =>
                      currentBatch[b] =
                          [i \in 1 .. currentBatchSize(b) |->
                              FreshRecord(b, i, fnPc[b] - 1)]
               /\ promise[b][1] = "resolved" =>
                      /\ calls[b] = failures[b] + 1
                      /\ promise[b][2] = FreshOutput(b)
        /\ genPc = "done" =>
               /\ \A b \in DOMAIN calls : calls[b] = failures[b] + 1
               /\ completion[2] =
                      stripHints(ConcatBatches([b \in DOMAIN calls |-> FreshOutput(b)],
                                               totalBatches))

(* A run succeeded in which a batch was executed again after a failure,    *)
(* as often as maxRetries allows, and another batch was executed once.     *)
C10_Witness ==
    /\ genPc = "done"
    /\ ~HasCachingStage
    /\ Len(stages) = 2
    /\ \E b \in DOMAIN calls :
           /\ failures[b] >= 1
           /\ failures[b] = options.maxRetries
           /\ calls[b] = failures[b] + 1
    /\ \E b \in DOMAIN calls : failures[b] = 0 /\ calls[b] = 1

(* The calls of the batch observer and the writes of the sink that the     *)
(* consumption of batches 0 .. n - 1 with outputs out makes.               *)
RECURSIVE ObservedUpTo(_, _)
ObservedUpTo(out, n) ==
    IF n = 0 \/ "onBatch" \notin DOMAIN synthOptions THEN <<>>
    ELSE Append(ObservedUpTo(out, n - 1),
                <<"onBatch", out[n - 1], [batchNumber |-> n - 1]>>)

RECURSIVE WrittenUpTo(_, _)
WrittenUpTo(out, n) ==
    IF n = 0 \/ "outFile" \notin DOMAIN synthOptions \/ synthOptions.outFile = ""
    THEN <<>>
    ELSE Append(WrittenUpTo(out, n - 1),
                <<"json", stripHints(ConcatBatches(out, n))>>)

(* C11: in a run with a caching stage nothing is retried.  Once a stage of *)
(* batch k has failed, batch k is not executed again, complete() rejects   *)
(* in the reaction that follows with the error that stage raised, not      *)
(* wrapped, and no batch above k is ever started.                          *)
C11_SerialNoRetry ==
    HasCachingStage =>
        \A k \in DOMAIN calls :
            failures[k] > 0 =>
                /\ calls[k] = 1
                /\ failures[k] = 1
                /\ fnPc[k] = 0
                /\ retries[k] = 0
                /\ backoffTimers = {}
                /\ \A b \in DOMAIN calls : b > k => calls[b] = 0
                /\ LET failed == Len(Trace(currentBatch[k][1]))
                   IN  \/ /\ genPc = "serial"
                          /\ completion = <<"pending">>
                          /\ fnOut[k] = <<"err", StageError(k, failed, 1)>>
                       \/ /\ genPc = "failed"
                          /\ completion = <<"rejected", StageError(k, failed, 1)>>

(* The first batch of a caching run of several batches failed in its       *)
(* second stage, retries being allowed by the options, and the run ended.  *)
C11_Witness ==
    /\ HasCachingStage
    /\ Len(stages) = 2
    /\ totalBatches >= 2
    /\ Throttler(synthOptions).maxRetries >= 1
    /\ genPc = "failed"
    /\ completion = <<"rejected", StageError(0, 1, 1)>>

(* C12: in parallel mode complete() rejects only in the consumption of the *)
(* failed batch k = batchNumber: every batch below k was resolved and has  *)
(* been appended, handed to the batch observer and written, in order, and  *)
(* nothing of a batch above k has been, whether it completed or not.       *)
C12_FailureAtItsIndex ==
    (~HasCachingStage /\ genPc = "failed") =>
        /\ promise[batchNumber][1] = "rejected"
        /\ completion = <<"rejected", promise[batchNumber][2]>>
        /\ \A b \in 0 .. (batchNumber - 1) : promise[b][1] = "resolved"
        /\ results = ConcatBatches([b \in DOMAIN promise |-> promise[b][2]],
                                   batchNumber)
        /\ observed = ObservedUpTo([b \in DOMAIN promise |-> promise[b][2]],
                                   batchNumber)
        /\ sink = WrittenUpTo([b \in DOMAIN promise |-> promise[b][2]],
                              batchNumber)

(* The run was rejected for its first batch after a later batch had        *)
(* completed: nothing was observed or written.                             *)
C12_Witness ==
    /\ ~HasCachingStage
    /\ genPc = "failed"
    /\ batchNumber = 0
    /\ totalBatches >= 2
    /\ promise[1][1] = "resolved"
    /\ Len(promise[1][2]) > 0
    /\ "onBatch" \in DOMAIN synthOptions
    /\ observed = <<>>
    /\ results = <<>>

(* Batch b failed without recovery: a stage of it failed in a run that     *)
(* does not retry, or its retries are exhausted.                           *)
FailedForGood(b) ==
    IF HasCachingStage
    THEN failures[b] > 0 /\ fnOut[b] = <<"none">>
    ELSE promise[b][1] = "rejected"

(* The error batch b failed for good with.                                 *)
FinalError(b) ==
    IF HasCachingStage
    THEN StageError(b, Len(Trace(currentBatch[b][1])), calls[b])
    ELSE promise[b][2]

(* C13 as stated: once complete() has settled, for every batch that failed *)
(* without recovery it has rejected with the error of that batch.          *)
C13_RejectsWithEveryError ==
    genPc \in {"done", "failed"} =>
        \A b \in DOMAIN calls :
            FailedForGood(b) => completion = <<"rejected", FinalError(b)>>

(* C13, amended: complete() never resolves when a batch has failed without *)
(* recovery; once it has settled with such a batch, it has rejected with   *)
(* the error of the lowest-indexed one (in parallel mode the retry-        *)
(* exhausted error that carries the last failure of that batch).           *)
C13_RejectsWithLowestError ==
    /\ genPc = "done" =>
           /\ completion[1] = "resolved"
           /\ \A b \in DOMAIN calls : ~FailedForGood(b)
    /\ genPc = "failed" =>
           /\ \E b \in DOMAIN calls : FailedForGood(b)
           /\ LET k == CHOOSE b \in DOMAIN calls :
                           /\ FailedForGood(b)
                           /\ \A a \in 0 .. (b - 1) : ~FailedForGood(a)
              IN  /\ completion = <<"rejected", FinalError(k)>>
                  /\ k = batchNumber
                  /\ ~HasCachingStage =>
                         /\ completion[2][1] = "Max retries"
                         /\ completion[2][4][1] = "stage failed"
                         /\ completion[2][4][2] = k
                         /\ completion[2][4][4] = calls[k]
    /\ (\E b \in DOMAIN calls : FailedForGood(b)) => completion[1] # "resolved"

(* Two batches of a run failed without recovery; complete() rejected with  *)
(* the error of the first.                                                 *)
C13_Witness ==
    /\ genPc = "failed"
    /\ totalBatches >= 2
    /\ FailedForGood(0)
    /\ FailedForGood(1)
    /\ FinalError(0) # FinalError(1)

(* ================================================== claims on batch sizes *)
(* The batch size and the number of records the options ask for.           *)
AskedBatchSize ==
    IF "batchSize" \in DOMAIN synthOptions THEN synthOptions.batchSize
    ELSE IF "defaultBatchSize" \in DOMAIN typeDefinition
         THEN typeDefinition.defaultBatchSize
         ELSE 10

AskedCount ==
    IF "batches" \in DOMAIN synthOptions
    THEN synthOptions.batches * AskedBatchSize
    ELSE IF "count" \in DOMAIN synthOptions THEN synthOptions.count
         ELSE AskedBatchSize

RECURSIVE SumOfSizes(_)
SumOfSizes(n) == IF n = 0 THEN 0 ELSE SumOfSizes(n - 1) + Len(currentBatch[n - 1])

Emissions(log) ==
    LET emits == SelectSeq(log, LAMBDA ev : ev[1] = "emit")
    IN  [i \in 1 .. Len(emits) |-> emits[i][2]]

C17_FinalSnapshot ==
    genPc = "done" =>
        /\ Emissions(effects) # <<>>
        /\ Emissions(effects)[Len(Emissions(effects))] =
               [batchesComplete |-> totalBatches, stagesComplete |-> Len(stages)]

(* A parallel run of several batches and stages has succeeded after a      *)
(* batch had failed and another had finished out of order.                 *)
C17_Witness ==
    /\ genPc = "done"
    /\ ~HasCachingStage
    /\ totalBatches >= 2
    /\ Len(stages) >= 2
    /\ overtook
    /\ \E b \in DOMAIN failures : failures[b] > 0

(* The number of batches generatePromise has consumed.                     *)
Consumed ==
    IF genPc \in {"idle", "dispatch"} THEN 0
    ELSE IF genPc = "done" THEN totalBatches
         ELSE batchNumber

(* C18: in both modes the batch observer is called once per consumed batch *)
(* in ascending index, with the batch; and in the callback that consumes   *)
(* batch b what the engine lets see is, in this order: the observer's call *)
(* for b, the write of the accumulated results with b appended, and the    *)
(* snapshot with batchesComplete = b + 1.                                  *)
C18_ObserverOncePerBatchInOrder ==
    /\ Len(observed) = (IF "onBatch" \in DOMAIN synthOptions THEN Consumed ELSE 0)
    /\ \A i \in 1 .. Len(observed) :
           /\ observed[i][3] = [batchNumber |-> i - 1]
           /\ observed[i][2] = currentBatch[i - 1]
    /\ \A i \in 1 .. Len(effects) :
           effects[i][1] = "onBatch" =>
               LET b == effects[i][3].batchNumber
                   written == TruthyString(synthOptions, "outFile")
                   e == IF written THEN i + 2 ELSE i + 1
               IN  /\ i = 1
                   /\ observed[b + 1] = effects[i]
                   /\ Len(effects) >= e
                   /\ written =>
                          effects[i + 1] =
                              <<"write",
                                <<"json", stripHints(ConcatBatches(currentBatch, b + 1))>> >>
                   /\ effects[e][1] = "emit"
                   /\ effects[e][2].batchesComplete = b + 1

(* A parallel run with an observer and a file, in which a batch finished   *)
(* before one of lower index, has succeeded.                               *)
C18_Witness ==
    /\ genPc = "done"
    /\ overtook
    /\ Len(observed) = 2
    /\ Len(sink) = 3
    /\ Len(effects) = 4

(* Record stripped is record item without the hints, nothing else changed. *)
StrippedOf(stripped, item) ==
    /\ "__hints" \notin DOMAIN stripped
    /\ DOMAIN stripped = DOMAIN item \ {"__hints"}
    /\ \A f \in DOMAIN stripped : stripped[f] = item[f]

(* C19: no record complete() returns and no record written to the sink,    *)
(* after a batch or at the end, has the field __hints; each is the record  *)
(* of the accumulated results at its position with every other field.      *)
C19_NoHintsLeave ==
    /\ completion[1] = "resolved" =>
           /\ Len(completion[2]) = Len(results)
           /\ \A i \in 1 .. Len(results) : StrippedOf(completion[2][i], results[i])
    /\ \A w \in 1 .. Len(sink) :
           /\ Len(sink[w][2]) <= Len(results)
           /\ \A i \in 1 .. Len(sink[w][2]) : StrippedOf(sink[w][2][i], results[i])

(* A run whose stages attached hints to some records and not to others has *)
(* succeeded and written its records.                                      *)
C19_Witness ==
    /\ genPc = "done"
    /\ Len(sink) >= 2
    /\ \E i \in 1 .. Len(results) : "__hints" \in DOMAIN results[i]
    /\ \E i \in 1 .. Len(results) :
           "__hints" \notin DOMAIN results[i] /\ "trace" \in DOMAIN results[i]

(* C20: with a file configured, the sink has been written once per batch   *)
(* consumed, the write after batch k being the accumulated records of      *)
(* batches 0 .. k without hints, and once more at the end of a successful  *)
(* run, B + 1 times in all, the last write being what complete() returns;  *)
(* without a file nothing is written.                                      *)
C20_SinkWrites ==
    IF TruthyString(synthOptions, "outFile")
    THEN /\ Len(sink) = (IF genPc = "done" THEN totalBatches + 1 ELSE Consumed)
         /\ \A k \in 0 .. (Consumed - 1) :
                sink[k + 1] = <<"json", stripHints(ConcatBatches(currentBatch, k + 1))>>
         /\ genPc = "done" => sink[totalBatches + 1] = <<"json", completion[2]>>
    ELSE /\ sink = <<>>
         /\ \A i \in 1 .. Len(effects) : effects[i][1] # "write"

(* A run of two batches with a file has succeeded: three writes, the first *)
(* shorter than the second.                                                *)
C20_Witness ==
    /\ genPc = "done"
    /\ totalBatches = 2
    /\ Len(sink) = 3
    /\ Len(sink[1][2]) < Len(sink[2][2])
    /\ sink[3] = sink[2]

(* ============================================ claims on the retry delays *)
(* C21: the delay of the timer scheduled before retry attempt k of a task  *)
(* lies in [0.85 * base * 2^(k-1), 1.15 * base * 2^(k-1)] ms, where base   *)
(* is the baseRetryDelayMs option, and 200 ms when the option is absent.   *)
C21_DelayWithinJitter ==
    /\ options.baseRetryDelayMs \notin BaseDelayChoices
           => options.baseRetryDelayMs = 200
    /\ \A t \in DOMAIN delays :
           \A k \in 1 .. Len(delays[t]) :
               LET nominal == options.baseRetryDelayMs * 2 ^ (k - 1) * TicksPerMs
               IN  /\ 85 * nominal <= 100 * delays[t][k]
                   /\ 100 * delays[t][k] <= 115 * nominal

(* A task of a Throttler with the default base delay was retried three     *)
(* times, and the jitter moved its third delay off the nominal 800 ms.     *)
C21_Witness ==
    /\ options.baseRetryDelayMs = 200
    /\ \E t \in DOMAIN delays :
           /\ Len(delays[t]) = 3
           /\ delays[t][3] > 800 * TicksPerMs

(* C22, as stated: the delays of the successive retries of a task are      *)
(* strictly increasing, whatever the jitter and the base delay.            *)
C22_DelaysIncrease ==
    \A t \in DOMAIN delays :
        \A k \in 1 .. (Len(delays[t]) - 1) : delays[t][k + 1] > delays[t][k]

(* C22, amended: with a positive base delay, the delays of the successive  *)
(* retries of a task are strictly increasing, whatever the jitter.         *)
C22_DelaysIncreaseWhenPositive ==
    options.baseRetryDelayMs > 0 => C22_DelaysIncrease

(* A task was retried twice with a positive base delay, the first delay    *)
(* with the largest jitter and the second one with the smallest.           *)
C22_Witness ==
    /\ options.baseRetryDelayMs > 0
    /\ \E t \in DOMAIN delays :
           /\ Len(delays[t]) >= 2
           /\ 100 * delays[t][1] > 100 * options.baseRetryDelayMs * TicksPerMs
           /\ 100 * delays[t][2] = 85 * 2 * options.baseRetryDelayMs * TicksPerMs

(* ==================================== claims on the parallel mode's limit *)
(* C23: in a run without a caching stage, the number of batches that are   *)
(* inside the stages of processBatch at the same time never exceeds the    *)
(* concurrency option of the run (5 when absent), retries included.        *)
C23_ParallelBatchesBounded ==
    ~HasCachingStage =>
        Cardinality({b \in DOMAIN fnPc : fnPc[b] > 0})
            <= Opt(synthOptions, "concurrency", 5)

(* A parallel run is at its limit while a batch that failed before is in   *)
(* its stages again and another batch waits in the queue.                  *)
C23_Witness ==
    /\ ~HasCachingStage
    /\ genPc = "consume"
    /\ Cardinality({b \in DOMAIN fnPc : fnPc[b] > 0})
           = Opt(synthOptions, "concurrency", 5)
    /\ \E b \in DOMAIN fnPc : fnPc[b] > 0 /\ retries[b] > 0
    /\ queue # <<>>

(* ============================================ claims on the two counters *)
Min(a, b) == IF a <= b THEN a ELSE b
Max(a, b) == IF a >= b THEN a ELSE b

(* No submitted task has settled, and no invocation of a task function     *)
(* has failed.                                                             *)
NoneSettledOrFailed ==
    \A t \in DOMAIN promise :
        /\ promise[t] \in {<<"none">>, <<"pending">>}
        /\ failures[t] = 0

(* C24: while none of the m tasks submitted to a Throttler with            *)
(* concurrency C has settled or failed, activeTaskCount = min(m, C) and    *)
(* queueLength = max(0, m - C).                                            *)
C24_CountersWhileNoneSettled ==
    NoneSettledOrFailed =>
        /\ activeTaskCount = Min(submitted, options.concurrency)
        /\ queueLength = Max(0, submitted - options.concurrency)

(* More tasks than the limit were submitted and none has settled or        *)
(* failed, though the function of one of them has already returned.        *)
C24_Witness ==
    /\ NoneSettledOrFailed
    /\ submitted > options.concurrency
    /\ options.concurrency > 1
    /\ queueLength > 0
    /\ \E t \in DOMAIN fnOut : fnOut[t][1] = "ok"

(* The tasks whose function was invoked and whose then/catch reaction has  *)
(* not run yet.                                                            *)
Counted == {t \in DOMAIN fnPc : fnPc[t] > 0 \/ fnOut[t] # <<"none">>}

(* C25: when every task submitted so far has settled, activeTaskCount and  *)
(* queueLength are 0; and whenever a task's promise is settled that task   *)
(* is no longer among the ones activeTaskCount counts (the decrement and   *)
(* the settlement happen in one callback, so that no reaction of the       *)
(* promise runs between them).                                             *)
C25_IdleWhenAllSettled ==
    /\ (submitted > 0 /\ \A t \in 0 .. (submitted - 1) : Settled(t))
           => (activeTaskCount = 0 /\ queueLength = 0)
    /\ activeTaskCount = Cardinality(Counted)
    /\ \A t \in DOMAIN promise : Settled(t) => t \notin Counted

(* Every task was submitted and has settled, one of them rejected after    *)
(* its retries and one resolved.                                           *)
C25_Witness ==
    /\ submitted = Cardinality(DOMAIN promise)
    /\ \A t \in DOMAIN promise : Settled(t)
    /\ \E t \in DOMAIN promise : promise[t][1] = "rejected" /\ retries[t] > 0
    /\ \E t \in DOMAIN promise : promise[t][1] = "resolved"

(* ============================================== claims on the start order *)
(* The function of task t has been invoked at least once.                  *)
Started(t) == calls[t] > 0

(* C26: as long as no task function has failed, tasks begin execution in   *)
(* the order of their submission: when a task has begun, every task        *)
(* submitted before it has begun too; so with more tasks than the          *)
(* concurrency C, the first C tasks begin before any later one.            *)
C26_StartedInSubmissionOrder ==
    (\A t \in DOMAIN failures : failures[t] = 0) =>
        /\ \A t \in DOMAIN calls :
               Started(t) => \A u \in 0 .. (t - 1) : Started(u)
        /\ \A t \in DOMAIN calls :
               (t >= options.concurrency /\ Started(t))
                   => \A u \in 0 .. (options.concurrency - 1) : Started(u)

(* Every task, more than the limit, was submitted, none failed, and the    *)
(* last one has begun while an earlier one has not settled.                *)
C26_Witness ==
    /\ \A t \in DOMAIN failures : failures[t] = 0
    /\ submitted = Cardinality(DOMAIN calls)
    /\ submitted > options.concurrency
    /\ options.concurrency > 1
    /\ Started(submitted - 1)
    /\ \E t \in DOMAIN promise : promise[t] = <<"pending">> /\ t < submitted - 1

(* ============================================= claims on successive runs *)
(* The number of stages of the pipeline that cache their output.           *)
CachingStages == Cardinality({k \in 1 .. Len(stages) : stages[k].cacheOutput})

(* C27: a second run of a pipeline with a caching stage starts from        *)
(* nothing of the first one: its batch 0 sees an empty previousData, every *)
(* batch sees only what the earlier batches of the same run cached, and    *)
(* the results it returns are the totalCount records of its own batches.   *)
C27_RunsShareNothing ==
    (runs >= 2 /\ HasCachingStage) =>
        /\ \A b \in DOMAIN context :
               calls[b] > 0
                   => Len(context[b].previousData) = CachingStages * b * batchSize
        /\ context[0].previousData = <<>>
        /\ Len(results) <= totalCount
        /\ completion[1] = "resolved" =>
               /\ Len(completion[2]) = totalCount
               /\ \A i \in 1 .. totalCount :
                      Trace(completion[2][i])[1]
                          = <<0, (i - 1) \div batchSize, (i - 1) % batchSize,
                              CachingStages * ((i - 1) \div batchSize) * batchSize>>

(* The second run of a pipeline with a caching stage returned the records  *)
(* of its batches, the later ones having seen what the earlier ones of     *)
(* that run cached.                                                        *)
C27_Witness ==
    /\ runs = 2
    /\ HasCachingStage
    /\ totalBatches >= 2
    /\ completion[1] = "resolved"
    /\ context[1].previousData # <<>>

(* ================================== claims on the stage output cache *)
(* Sequence s is the beginning of sequence t.                              *)
IsPrefix(s, t) == Len(s) <= Len(t) /\ SubSeq(t, 1, Len(s)) = s

(* Batch b returns from its await of stage k (1-indexed) with the output   *)
(* of the stage in this step.                                              *)
StageSucceeds(b, k) ==
    /\ fnPc[b] = k
    /\ \/ fnPc'[b] = k + 1
       \/ fnPc'[b] = 0 /\ fnOut'[b][1] = "ok"

(* C28: the cache has an entry only at the indices of the stages flagged   *)
(* cacheOutput; within a run, a successful execution of such a stage puts  *)
(* the whole output of the batch at the end of the stage's entry, and      *)
(* every step leaves what an entry held at its beginning, in order.        *)
C28_CacheAppendOnly ==
    /\ [](\A i \in DOMAIN cachedStageOutputs :
              i + 1 \in 1 .. Len(stages) /\ stages[i + 1].cacheOutput)
    /\ [][runs' = runs =>
            /\ \A i \in DOMAIN cachedStageOutputs :
                   /\ i \in DOMAIN cachedStageOutputs'
                   /\ IsPrefix(cachedStageOutputs[i], cachedStageOutputs'[i])
            /\ \A b \in DOMAIN fnPc :
                   \A k \in 1 .. Len(stages) :
                       (StageSucceeds(b, k) /\ stages[k].cacheOutput) =>
                           /\ k - 1 \in DOMAIN cachedStageOutputs'
                           /\ cachedStageOutputs'[k - 1]
                                  = (IF k - 1 \in DOMAIN cachedStageOutputs
                                     THEN cachedStageOutputs[k - 1] ELSE <<>>)
                                    \o currentBatch'[b]]_vars

(* The second of two caching stages has cached the outputs of two batches, *)
(* one after the other.                                                    *)
C28_Witness ==
    /\ Len(stages) = 2
    /\ stages[1].cacheOutput /\ stages[2].cacheOutput
    /\ totalBatches >= 2
    /\ 1 \in DOMAIN cachedStageOutputs
    /\ Len(cachedStageOutputs[1]) = totalCount
    /\ Len(currentBatch[1]) > 0
    /\ cachedStageOutputs[1]
           = currentBatch[0] \o currentBatch[1]

(* ================================================ claims on the observers *)
(* The run has ended: the promise of complete() is settled.                *)
Ended == genPc \in {"done", "failed"}

(* C29: when an observer has raised a failure, the run does not end in     *)
(* any other way than complete() failing with a failure an observer        *)
(* raised, in serial and in parallel mode.                                 *)
C29_ObserverFailurePropagates ==
    (thrown # {} /\ Ended) =>
        (completion[1] = "rejected" /\ completion[2] \in thrown)

(* What of C29 the code does: the failures of onBatch, and those of        *)
(* onProgress in serial mode or in the emit of processBatchResults, reach  *)
(* the caller of complete() as they are.                                   *)
C29_PropagatesOutsideTasks ==
    (thrown # {} /\ Ended /\ (HasCachingStage \/ MayThrow("onBatch"))) =>
        (completion[1] = "rejected" /\ completion[2] \in thrown)

(* ============================================ claims on the snapshots *)
(* Batch b comes to its await of stage k (1-indexed) in this step.         *)
EntersStage(b, k) == fnPc'[b] = k /\ fnPc[b] # k

(* C30: the callback that brings a batch to the await of the stage of      *)
(* index i ends its effects with a snapshot whose stagesComplete is i, and *)
(* the callback in which that stage succeeds begins its effects with a     *)
(* snapshot whose stagesComplete is i + 1; and a run of B batches of S     *)
(* stages that ended without any failed attempt has emitted exactly        *)
(* B * (2 * S + 1) snapshots.                                              *)
C30_SnapshotsAroundStages ==
    /\ []((genPc = "done" /\ thrown = {}
               /\ \A b \in DOMAIN failures : failures[b] = 0)
           => emitted = totalBatches * (2 * Len(stages) + 1))
    /\ [][\A b \in DOMAIN fnPc :
              \A k \in 1 .. Len(stages) :
                  /\ EntersStage(b, k) =>
                         /\ effects' # <<>>
                         /\ effects'[Len(effects')][1] = "emit"
                         /\ effects'[Len(effects')][2].stagesComplete = k - 1
                  /\ StageSucceeds(b, k) =>
                         /\ effects' # <<>>
                         /\ effects'[1][1] = "emit"
                         /\ effects'[1][2].stagesComplete = k]_vars

(* A parallel run of two batches of two stages ended without a failed      *)
(* attempt, ten snapshots having been emitted.                             *)
C30_Witness ==
    /\ genPc = "done"
    /\ ~HasCachingStage
    /\ \A b \in DOMAIN failures : failures[b] = 0
    /\ totalBatches = 2
    /\ Len(stages) = 2
    /\ emitted = 10

(* ------------------------------------------------------------------ C31 *)
(* The number of successive waves in which b tasks execute when c of them  *)
(* may run at a time.                                                      *)
Waves(b, c) == IF b % c = 0 THEN b \div c ELSE (b \div c) + 1

AllSettled == \A t \in DOMAIN promise : Settled(t)

(* C31: with concurrency C and B batches that each take the same fixed     *)
(* duration and never fail, the batches execute in ceil(B/C) successive    *)
(* waves: batch t starts when t div C durations have passed, the run is    *)
(* over after ceil(B/C) * duration, and that is strictly less than         *)
(* B * duration whenever C > 1 and B > 1.  (Callbacks and zero-delay       *)
(* timers take no time here, which is what "about" leaves out.)            *)
C31_RunsInWaves ==
    LET B == Cardinality(DOMAIN promise)
        C == options.concurrency
    IN  /\ now <= Waves(B, C) * TaskDuration
        /\ \A t \in DOMAIN promise :
               /\ calls[t] = 1 =>
                      now - elapsed[t] >= (t \div C) * TaskDuration
               /\ elapsed[t] <= TaskDuration
               /\ Settled(t) => now >= ((t \div C) + 1) * TaskDuration
        /\ AllSettled =>
               /\ now = Waves(B, C) * TaskDuration
               /\ (C > 1 /\ B > 1) => now < B * TaskDuration

(* Three tasks under concurrency 2 have all settled, after two waves.      *)
C31_Witness ==
    /\ AllSettled
    /\ Cardinality(DOMAIN promise) = 3
    /\ options.concurrency = 2
    /\ now = 2 * TaskDuration

(* ------------------------------------------------------------------ C32 *)
(* C32: when several batches of a parallel run fail terminally,            *)
(* complete() rejects with the error of the lowest-indexed failing batch,  *)
(* independent of which batch failed first in time: while a batch has      *)
(* failed, no batch below it has, and one of them is unsettled, nothing    *)
(* is delivered; and once complete() has rejected, every batch below the   *)
(* one whose error it carries was resolved and the error of no batch       *)
(* above it is the one delivered.                                          *)
C32_LowestIndexedError ==
    ~HasCachingStage =>
        /\ \A b \in DOMAIN promise :
               (/\ promise[b][1] = "rejected"
                /\ \A a \in 0 .. (b - 1) : promise[a][1] # "rejected"
                /\ \E a \in 0 .. (b - 1) : promise[a] = <<"pending">>)
               => completion = <<"pending">>
        /\ completion[1] = "rejected" =>
               /\ genPc = "failed"
               /\ promise[batchNumber][1] = "rejected"
               /\ completion[2] = promise[batchNumber][2]
               /\ \A a \in 0 .. (batchNumber - 1) : promise[a][1] = "resolved"
               /\ \A b \in DOMAIN promise :
                      (b > batchNumber /\ promise[b][1] = "rejected")
                      => completion[2] # promise[b][2]

(* Batches 0 and 1 both failed terminally, batch 1 first in time, and      *)
(* complete() rejected with the error of batch 0.                          *)
C32_Witness ==
    /\ ~HasCachingStage
    /\ rejectedFirst
    /\ promise[0][1] = "rejected"
    /\ promise[1][1] = "rejected"
    /\ completion = <<"rejected", promise[0][2]>>

(* ------------------------------------------------------------------ C33 *)
(* Every batch of the run has settled in the Throttler.                    *)
EveryBatchSettled == \A b \in DOMAIN promise : Settled(b)

Queued(t) == {i \in 1 .. Len(queue) : queue[i] = t}

(* The number of places among the pending queue, the running tasks and     *)
(* the pending backoff timers that hold task t.                            *)
Places(t) ==
    Cardinality(Queued(t))
    + (IF t \in Counted THEN 1 ELSE 0)
    + (IF t \in backoffTimers THEN 1 ELSE 0)

Unsettled == {t \in DOMAIN promise : promise[t] = <<"pending">>}

(* C34: task conservation.  Every submitted task that has not settled is   *)
(* in exactly one of the pending queue, the running tasks and the tasks    *)
(* that wait for their backoff timer, every other task is in none, and     *)
(* queueLength + activeTaskCount + (tasks in backoff) is the number of     *)
(* unsettled tasks.                                                        *)
C34_TaskConservation ==
    /\ \A t \in DOMAIN promise :
           Places(t) = IF t \in Unsettled THEN 1 ELSE 0
    /\ queueLength + activeTaskCount + Cardinality(backoffTimers)
           = Cardinality(Unsettled)

(* Three unsettled tasks, one in each place.                               *)
C34_Witness ==
    /\ Cardinality(Unsettled) = 3
    /\ queueLength = 1
    /\ activeTaskCount = 1
    /\ Cardinality(backoffTimers) = 1

(* ------------------------------------------------------------------ C35 *)
(* A task waits in the queue and the Throttler has room to run it.         *)
CouldStart == queueLength > 0 /\ activeTaskCount < options.concurrency

(* C35: no lost wake-up.  In every state between callbacks where the       *)
(* pending queue is non-empty and the running count is below the           *)
(* concurrency limit, a call of processQueue is scheduled: a zero-delay    *)
(* timer or a backoff timer is pending.                                    *)
C35_NoLostWakeup ==
    (~Synchronous /\ CouldStart) => (zeroTimers > 0 \/ backoffTimers # {})

(* A task waits with room to run it, and the only call of processQueue     *)
(* that is scheduled is the backoff timer of another task.                 *)
C35_Witness ==
    /\ CouldStart
    /\ zeroTimers = 0
    /\ backoffTimers # {}

(* ------------------------------------------------------------------ C36 *)
(* C36: the retry boundary.  A task whose function fails exactly           *)
(* maxRetries times and succeeds on invocation maxRetries + 1 is resolved  *)
(* with the value of that invocation; a task is not rejected while its     *)
(* function has failed maxRetries times or fewer, and a rejected task has  *)
(* failed on invocation maxRetries + 1 too, whose error the rejection      *)
(* carries.                                                                *)
C36_RetryBoundary ==
    \A t \in DOMAIN promise :
        LET last == options.maxRetries + 1
        IN  /\ (/\ failures[t] = options.maxRetries
                /\ calls[t] = last
                /\ fnPc[t] = 0
                /\ fnOut[t] = <<"none">>)
               => promise[t] = <<"resolved", FnValue(t, last)>>
            /\ failures[t] <= options.maxRetries => promise[t][1] # "rejected"
            /\ promise[t][1] = "rejected" =>
                   /\ failures[t] = last
                   /\ promise[t][2][4] = FnError(t, last)

(* A task was resolved by its last permitted invocation, after maxRetries  *)
(* failures, in a Throttler that retries.                                  *)
C36_Witness ==
    \E t \in DOMAIN promise :
        /\ options.maxRetries >= 1
        /\ failures[t] = options.maxRetries
        /\ promise[t] = <<"resolved", FnValue(t, options.maxRetries + 1)>>

(* ------------------------------------------------------------------ C37 *)
(* The invocations of the function of task t that have begun and have not  *)
(* ended.                                                                  *)
InProgress(t) ==
    calls[t] - failures[t]
    - (IF fnOut[t][1] = "ok" \/ promise[t][1] = "resolved" THEN 1 ELSE 0)

(* The failures of task t whose catch reaction has run.                    *)
Handled(t) == failures[t] - (IF fnOut[t][1] = "err" THEN 1 ELSE 0)

(* C37: retry state is per task.  At most one invocation of a task is in   *)
(* progress at any time, and none while the task is queued or waits for    *)
(* its backoff timer; the retry counter of a task is the number of its own *)
(* handled failures, up to maxRetries; and whether a task is rejected, and *)
(* the value it is resolved with, is decided by its own failures alone,    *)
(* whatever the other tasks of the Throttler did.                          *)
C37_RetryStatePerTask ==
    \A t \in DOMAIN promise :
        /\ InProgress(t) = IF fnPc[t] > 0 THEN 1 ELSE 0
        /\ (Queued(t) # {} \/ t \in backoffTimers)
               => (fnPc[t] = 0 /\ fnOut[t] = <<"none">>)
        /\ retries[t] = Min(Handled(t), options.maxRetries)
        /\ promise[t][1] = "rejected" <=> Handled(t) = options.maxRetries + 1
        /\ promise[t][1] = "resolved" =>
               promise[t][2] = FnValue(t, failures[t] + 1)

(* A task was rejected after its retries, another was resolved without a   *)
(* failure and a third has used part of its retries, in one Throttler.     *)
C37_Witness ==
    \E t, u, w \in DOMAIN promise :
        /\ options.maxRetries >= 2
        /\ promise[t][1] = "rejected" /\ retries[t] = options.maxRetries
        /\ promise[u][1] = "resolved" /\ failures[u] = 0 /\ retries[u] = 0
        /\ retries[w] = 1 /\ fnPc[w] > 0

(* ------------------------------------------------------------------ C38 *)
(* C38: in parallel mode the stage-output cache stays empty for the whole  *)
(* run, so every batch, in its first attempt and in every retried one,     *)
(* gets an empty previousData in its context; every stage execution its    *)
(* records went through saw an empty previousData and was an execution on  *)
(* that batch, so no batch observes the output of another.                 *)
C38_ParallelCacheEmpty ==
    (~HasCachingStage /\ genPc # "idle") =>
        /\ cachedStageOutputs = <<>>
        /\ \A b \in DOMAIN calls :
               calls[b] > 0 =>
                   /\ context[b].previousData = <<>>
                   /\ \A i \in 1 .. Len(currentBatch[b]) :
                          /\ FromBatch(currentBatch[b][i], b)
                          /\ \A j \in 1 .. Len(Trace(currentBatch[b][i])) :
                                 Trace(currentBatch[b][i])[j][4] = 0

(* Batch 0 of a parallel run was resolved with its records, and batch 1    *)
(* is in a retried attempt whose context has an empty previousData.        *)
C38_Witness ==
    /\ ~HasCachingStage
    /\ totalBatches >= 2
    /\ promise[0][1] = "resolved"
    /\ Len(promise[0][2]) > 0
    /\ calls[1] >= 2
    /\ fnPc[1] > 0
    /\ context[1].previousData = <<>>

(* ------------------------------------------------------------------ C39 *)
(* C39: complete() is not memoized.  Every call of complete() begins a run *)
(* of its own, with an empty result list and stage-output cache, a         *)
(* pending promise and, in parallel mode, a new Throttler with nothing     *)
(* submitted; when that run succeeds every batch was executed in it        *)
(* through every stage, and its promise is resolved with the records of    *)
(* its own result list.                                                    *)
C39_NotMemoized ==
    /\ [][runs' = runs + 1 =>
              /\ results' = <<>>
              /\ cachedStageOutputs' = <<>>
              /\ completion' = <<"pending">>
              /\ genPc' \in {"serial", "dispatch"}
              /\ HasCachingStage =>
                     (/\ calls'[0] = 1
                      /\ \A b \in DOMAIN calls : b > 0 => calls'[b] = 0)
              /\ ~HasCachingStage =>
                     /\ throttlers' = throttlers + 1
                     /\ queue' = <<>>
                     /\ submitted' = 0
                     /\ \A b \in DOMAIN promise :
                            promise'[b] = <<"none">> /\ calls'[b] = 0]_vars
    /\ [](~HasCachingStage => throttlers = runs)
    /\ [](genPc = "done" =>
              /\ \A b \in DOMAIN calls :
                     /\ calls[b] >= 1
                     /\ \A i \in 1 .. Len(currentBatch[b]) :
                            Len(Trace(currentBatch[b][i])) = Len(stages)
              /\ Len(results) = totalCount
              /\ completion = <<"resolved", stripHints(results)>>)

(* The second complete() of a job in parallel mode has resolved, with the  *)
(* second Throttler of the job.                                            *)
C39_Witness ==
    /\ runs = 2
    /\ genPc = "done"
    /\ ~HasCachingStage
    /\ totalBatches >= 2
    /\ throttlers = 2
    /\ completion[1] = "resolved"
    /\ Len(completion[2]) = totalCount

====
